---------------------------- MODULE Spec2Model ----------------------------
(***************************************************************************)
(* A model of the PIK codec core (src/pik.cc, src/compressed_image.h):     *)
(* the rate-control loop FindBestQuantization with its helpers, the        *)
(* target-size controller, the Y-to-B grid search Optimize, the mode       *)
(* selection of OpsinToPik and the header checks of the decoder.           *)
(*                                                                         *)
(* float values are modelled as exact rationals <<n, d>> (d > 0, lowest    *)
(* terms); 32/64-bit unsigned integers as little-endian base-256 digit     *)
(* sequences, so that their width is kept.                                 *)
(***************************************************************************)
EXTENDS Integers, Sequences, FiniteSets, TLC

(***************************************************************************)
(* Exact rational arithmetic standing for the float operations.            *)
(***************************************************************************)
Abs(n) == IF n < 0 THEN -n ELSE n

RECURSIVE GCD(_, _)
GCD(a, b) == IF b = 0 THEN a ELSE GCD(b, a % b)

\* v, evaluated once, handed to F
With(v, F(_)) == CHOOSE r \in {F(x) : x \in {v}} : TRUE

Norm(p) == LET g == GCD(Abs(p[1]), p[2]) IN <<p[1] \div g, p[2] \div g>>
Rat(n, d) == With(<<n, d>>, Norm)

\* sums are taken over the least common denominator, to keep the numbers small
RAddP(p) ==
  LET g == GCD(p[1][2], p[2][2])
  IN Rat(p[1][1] * (p[2][2] \div g) + p[2][1] * (p[1][2] \div g),
         (p[1][2] \div g) * p[2][2])
RSubP(p) ==
  LET g == GCD(p[1][2], p[2][2])
  IN Rat(p[1][1] * (p[2][2] \div g) - p[2][1] * (p[1][2] \div g),
         (p[1][2] \div g) * p[2][2])
RMulP(p) == Rat(p[1][1] * p[2][1], p[1][2] * p[2][2])
RDivP(p) == Rat(p[1][1] * p[2][2], p[1][2] * p[2][1])
RAdd(a, b) == With(<<a, b>>, RAddP)
RSub(a, b) == With(<<a, b>>, RSubP)
RMul(a, b) == With(<<a, b>>, RMulP)
\* a / b for b > 0
RDiv(a, b) == With(<<a, b>>, RDivP)
\* comparisons are made over the least common denominator as well
RLtP(p) ==
  LET g == GCD(p[1][2], p[2][2])
  IN p[1][1] * (p[2][2] \div g) < p[2][1] * (p[1][2] \div g)
RLeP(p) ==
  LET g == GCD(p[1][2], p[2][2])
  IN p[1][1] * (p[2][2] \div g) <= p[2][1] * (p[1][2] \div g)
RLt(a, b) == With(<<a, b>>, RLtP)
RLe(a, b) == With(<<a, b>>, RLeP)
RMax(a, b) == With(<<a, b>>, LAMBDA p : IF RLt(p[1], p[2]) THEN p[2] ELSE p[1])
ROne == <<1, 1>>
RZero == <<0, 1>>

(***************************************************************************)
(* Program constants.                                                      *)
(***************************************************************************)
kBlockEdge == 8
kMaxOuterIters == 3
kTileToBlockRatio == 8
kStartYToB == 120
\* kMaxWidth = (1 << 25) - 1
kMaxWidth == 33554431
\* kAdjSpeed[outer_iter] = { 0.1, 0.05, 0.025 }, indexed from 0
kAdjSpeed(o) == CASE o = 0 -> <<1, 10>> [] o = 1 -> <<1, 20>> [] OTHER -> <<1, 40>>
\* the table with its two non-zero factors in the other order
kQuantScaleSwapped(o) == CASE o = 0 -> <<0, 1>> [] o = 1 -> <<9, 10>> [] OTHER -> <<4, 5>>
\* kQuantScale[outer_iter] = { 0.0, 0.8, 0.9 }, indexed from 0
kQuantScale(o) == CASE o = 0 -> <<0, 1>> [] o = 1 -> <<4, 5>> [] OTHER -> <<9, 10>>
\* adaptive_quant_params()
initial_quant_val_dc == <<17, 16>>
initial_quant_val_ac == <<9, 16>>
\* peak_weight passed to DistToPeakMap by FindBestQuantization
kPeakWeight == <<13, 20>>
\* the initial quant_max, its step and its cap
kQuantMaxInit == <<4, 1>>
kQuantMaxStep == <<1, 2>>
\* a cap two units higher
kQuantMaxCapTen == <<10, 1>>
kQuantMaxCap == <<8, 1>>

(***************************************************************************)
(* Bounds of the model and the inputs it enumerates.                       *)
(***************************************************************************)
\* largest iteration budget max_butteraugli_iters tried
MaxIters == 3
\* the image of the rate-control runs: 16 x 8 pixels, two blocks in a row
FbqXSize == 2 * kBlockEdge
FbqYSize == kBlockEdge
\* butteraugli targets tried
Targets == {<<1, 1>>, <<1, 8>>}
\* the distances a comparator call may report, per block and as the scalar
DistLevels == {<<0, 1>>, <<2, 1>>, <<20, 1>>}
\* CompressToTargetSize: the largest encoded size, the byte targets, the
\* baseline AC fields left by the rate control, and how often the outcome of
\* Encode (fits the target or not) may differ from that of the call before
MaxEncSize == 3
MaxFlips == 3
TargetSizes == {0, 2}
BaselineFields == {<<<<9, 16>>, <<9, 16>>>>, <<<<4, 1>>, <<9, 16>>>>}
\* the round trip through Encode and Decode: coefficients kept per block
\* (the DC and RtCoeffs - 1 AC coefficients), the 16-bit coefficient values,
\* quantizer values and Y-to-B values tried, and the bytes that may follow
\* the payload in the buffer handed to Decode
RtCoeffs == 2
RtXSize == 2 * kBlockEdge
RtYSize == 2 * kBlockEdge
DCVals == {-32768, -1, 0, 32767}
ACVals == {-32768, 0, 255}
RtQuantDCs == {<<1, 1>>, <<17, 16>>}
RtQuantACs == {<<9, 16>>, <<4, 1>>}
RtYToBDCs == {0, 120, 255}
RtYToBACs == {0, 255}
RtTrailers == {<<>>, <<1, 0>>}
\* Optimize: the ranges [minval, maxval] searched, the start values, and the
\* objectives: strictly decreasing down to a flat bottom of OptMaxFlat + 1
\* values at most, strictly increasing after it, with the slopes of OptSlopes
OptRanges == {<<0, 255>>, <<3, 40>>}
OptStarts == {0, 3, 17, 40, kStartYToB, 255}
OptMaxFlat == 2
OptSlopes == {1, 5}
\* FindBestYToBCorrelation: the image sizes (one tile, and two tiles each
\* way), the Y-to-B value the image holds before, and the objectives of the
\* global and of the local searches
Y2BSizes == {<<kBlockEdge * kTileToBlockRatio, kBlockEdge * kTileToBlockRatio>>,
             <<kBlockEdge * kTileToBlockRatio + 1, kBlockEdge * kTileToBlockRatio + 1>>}
Y2BInitial == {0}
GlobalObjectives ==
  {[lo |-> l, hi |-> l, down |-> 1, up |-> 1, base |-> 300] : l \in {0, 117, 255}}
LocalObjectives ==
  {[lo |-> l, hi |-> l, down |-> 1, up |-> 1, base |-> b] :
     l \in {3, 255}, b \in {0, 150, 290}}
\* one call of DistToPeakMap: field sizes, values, radii, peak_min and weights
DtpSizes == {<<4, 1>>, <<5, 1>>, <<3, 2>>}
DtpValues == {<<1, 2>>, <<3, 2>>, <<3, 1>>}
DtpRadii == {1, 2}
DtpPeakMins == {<<1, 1>>, <<2, 1>>}
DtpWeights == {<<0, 1>>, <<13, 20>>, <<1, 1>>}
\* one call of TileDistMap: image sizes, tile sizes and pixel values
TdmSizes == {<<9, 9>>, <<16, 8>>, <<7, 10>>}
TdmTileSizes == {kBlockEdge, 4}
TdmBackground == {<<0, 1>>, <<1, 2>>}
TdmValues == {<<2, 1>>, <<1, 4>>}
\* one call of ScaleQuantizationMap: the baseline DC values and the scales
SqmQuantDCs == {<<17, 16>>, <<17, 2>>}
SqmScales == {<<1, 1>>, <<7, 8>>, <<3, 4>>, <<1, 2>>, <<1, 4>>}
\* OpsinToPik: the float parameters tried ("NaN": every comparison with it
\* is false), the image dimensions and the sizes of the payload
FloatParams == {"NaN", <<-1, 1>>, <<0, 1>>, <<1, 2>>}
OpsinSizes == {0, 8, 16}
PayloadSizes == {1, 2}
\* PikToPixelsT: the sizes of the input, the header fields (32-bit, as four
\* base-256 digits, lowest first) and max_num_pixels (64-bit, eight digits),
\* the size of the stored header, the bytes Decode and PikToAlpha read
CompressedSizes == {0, 4, 40}
HdrXSizes == {<<0, 0, 0, 0>>, <<1, 0, 0, 0>>, <<0, 0, 1, 0>>, <<255, 255, 255, 1>>,
              <<0, 0, 0, 2>>, <<255, 255, 255, 255>>}
HdrYSizes == {<<0, 0, 0, 0>>, <<1, 0, 0, 0>>, <<0, 0, 1, 0>>, <<255, 255, 255, 255>>}
HdrFlags == {{}, {"kAlpha"}, {"kWebPLossless"}}
MaxNumPixels == {<<0, 0, 1, 0, 0, 0, 0, 0>>, <<255, 255, 255, 255, 0, 0, 0, 0>>,
                 <<255, 255, 255, 255, 255, 255, 255, 255>>}
HeaderSizes == {8, 12}
BytesReads == {14, 28}
\* the arguments of the AdjustQuantVal calls tried
AqvQs == {<<1, 2>>, <<9, 16>>, <<399, 100>>, <<999, 250>>, <<4, 1>>, <<9, 2>>,
          <<8, 1>>, <<10, 1>>}
AqvDs == {<<0, 1>>, <<1, 1>>, <<2, 1>>, <<3, 1>>, <<4, 1>>}
AqvFactors == {<<0, 1>>, <<1, 100>>, <<1, 5>>, <<2, 1>>}
AqvQuantMaxes == {<<k, 2>> : k \in 8 .. 16}

VARIABLES
  \* the Quantizer of the compressed image and the count of Quantize() calls
  quantizer_dc, quantizer_ac, num_quantize,
  \* FindBestQuantization
  fbq_pc, butteraugli_target, max_butteraugli_iters, quant_field, tile_distmap,
  distance, outer_iter, butteraugli_iter, quant_max, changed, radius,
  \* the history of a FindBestQuantization run (quantized_with: the
  \* quantizer values of the last Quantize call): the kQuantScale factors
  \* applied so far, quant_field as it was when the current pass over the
  \* radii began, whether the current outer iteration called the comparator
  scales_applied, pass_start_field, compared, quantized_with,
  \* one call of AdjustQuantVal: its arguments, *q on entry (aqv_q0) and now
  \* (aqv_q), and the value returned
  aqv_pc, aqv_q0, aqv_q, aqv_d, aqv_factor, aqv_quant_max, aqv_ret,
  \* CompressToTargetSize: its locals, the string returned (cts_result), and
  \* the history of its Encode calls: the scales encoded, whether an
  \* encoding fit, the outcome of the last call and the changes of outcome
  cts_pc, target_size, cts_quant_dc, cts_quant_ac, scale_bad, scale_good, cts_i,
  candidate, compressed, cts_result, enc_scales, enc_fit_seen, enc_last_fit,
  enc_flips, enc_fits, num_bisect,
  \* the rest of the compressed image: dct_coeffs_, ytob_dc_, ytob_ac_
  dct_coeffs, ytob_dc, ytob_ac,
  \* an Encode call followed by a Decode call into a second image: the bytes
  \* encoded, the buffer decoded, what Decode returned and what it read
  rt_pc, rt_bytes, rt_data, dec_ok, dec_img, compressed_size,
  \* Optimize: its arguments and locals, the objective eval stands for
  \* (objective), the value eval last set (eval_val), the value returned
  opt_pc, opt_minval, opt_maxval, opt_start, opt_end, resolution, opt_val,
  best_val, best_objval, objective, eval_val, opt_ret,
  \* OpsinToPik: the parameters, the image size, the modes run, the target
  \* size and payload computed, the header stored, the result
  otp_pc, params, opsin_xsize, opsin_ysize, modes_run, otp_target_size,
  compressed_data, otp_header, otp_ret, otp_error,
  \* PikToPixelsT: the input size, the header in it, the decode parameters,
  \* the position in the input, whether the CompressedImage was constructed
  \* and Decode called, the result
  p2p_pc, compressed_len, header, dparams, byte_pos, img_constructed,
  decode_called, p2p_ret, p2p_error, decoded_size,
  \* FindBestYToBCorrelation: the image size, the tile of eval_local, the
  \* value the global search returned (-1 before it returns), and the history
  \* of the local stage: the tiles searched and the values returned for them
  y2b_pc, y2b_xsize, y2b_ysize, tilex, tiley, global_ytob, tiles_searched,
  local_rets,
  \* one call of a function of its arguments: the arguments, the value
  \* returned
  call_pc, call_args, call_result

imgVars == <<quantizer_dc, quantizer_ac, num_quantize>>
fbqVars == <<fbq_pc, butteraugli_target, max_butteraugli_iters, quant_field,
             tile_distmap, distance, outer_iter, butteraugli_iter, quant_max,
             changed, radius>>
fbqHist == <<scales_applied, pass_start_field, compared, quantized_with>>
aqvVars == <<aqv_pc, aqv_q0, aqv_q, aqv_d, aqv_factor, aqv_quant_max, aqv_ret>>

ctsVars == <<cts_pc, target_size, cts_quant_dc, cts_quant_ac, scale_bad, scale_good,
             cts_i, candidate, compressed, cts_result, enc_scales, enc_fit_seen,
             enc_last_fit, enc_flips, enc_fits, num_bisect>>

coefVars == <<dct_coeffs, ytob_dc, ytob_ac>>
rtVars == <<rt_pc, rt_bytes, rt_data, dec_ok, dec_img, compressed_size>>
optVars == <<opt_pc, opt_minval, opt_maxval, opt_start, opt_end, resolution, opt_val,
             best_val, best_objval, objective, eval_val, opt_ret>>
otpVars == <<otp_pc, params, opsin_xsize, opsin_ysize, modes_run, otp_target_size,
             compressed_data, otp_header, otp_ret, otp_error>>
p2pVars == <<p2p_pc, compressed_len, header, dparams, byte_pos, img_constructed,
             decode_called, p2p_ret, p2p_error, decoded_size>>

y2bVars == <<y2b_pc, y2b_xsize, y2b_ysize, tilex, tiley, global_ytob, tiles_searched,
             local_rets>>

callVars == <<call_pc, call_args, call_result>>

vars == <<imgVars, fbqVars, fbqHist, aqvVars, ctsVars, coefVars, rtVars, optVars, otpVars,
          p2pVars, y2bVars, callVars>>

\* what the actions of one part leave alone
otherThanFBQ == <<aqvVars, ctsVars, coefVars, rtVars, optVars, otpVars, p2pVars, y2bVars, callVars>>
otherThanAQV == <<imgVars, fbqVars, fbqHist, ctsVars, coefVars, rtVars, optVars, otpVars, p2pVars, y2bVars, callVars>>
otherThanCTS == <<fbqVars, fbqHist, aqvVars, coefVars, rtVars, optVars, otpVars, p2pVars, y2bVars, callVars>>
otherThanRT == <<fbqVars, fbqHist, aqvVars, ctsVars, optVars, otpVars, p2pVars, y2bVars, callVars>>
otherThanOpt == <<imgVars, fbqVars, fbqHist, aqvVars, ctsVars, coefVars, rtVars, otpVars, p2pVars, y2bVars, callVars>>
otherThanOTP == <<imgVars, fbqVars, fbqHist, aqvVars, ctsVars, coefVars, rtVars, optVars, p2pVars, y2bVars, callVars>>
otherThanP2P == <<imgVars, fbqVars, fbqHist, aqvVars, ctsVars, coefVars, rtVars, optVars, otpVars, y2bVars, callVars>>
otherThanY2B == <<fbqVars, fbqHist, aqvVars, ctsVars, rtVars, otpVars, p2pVars, callVars>>
otherThanSQM == <<fbqVars, fbqHist, aqvVars, ctsVars, coefVars, rtVars, optVars, otpVars,
                 p2pVars, y2bVars>>
otherThanCall == <<imgVars, fbqVars, fbqHist, aqvVars, ctsVars, coefVars, rtVars, optVars,
                  otpVars, p2pVars, y2bVars>>

(***************************************************************************)
(* Images: a function [y -> [x -> value]], rows 0..ysize-1.                *)
(***************************************************************************)
CeilDiv(a, b) == (a + b - 1) \div b
Min(a, b) == IF a < b THEN a ELSE b
Max(a, b) == IF a < b THEN b ELSE a

ImageOf(xsize, ysize, v) == [y \in 0 .. ysize - 1 |-> [x \in 0 .. xsize - 1 |-> v]]
XSizeOf(img) == IF DOMAIN img = {} THEN 0 ELSE Cardinality(DOMAIN img[0])
YSizeOf(img) == Cardinality(DOMAIN img)

\* std::max folded over a set of values, starting from init
RMaxOver(init, S) ==
  LET all == S \cup {init} IN CHOOSE m \in all : \A e \in all : RLe(e, m)

\* a tile map that leaves out the partial tiles at the right and lower edge
TileDistMapWholeTiles(distmap, xsize, ysize, tile_size) ==
  [tile_y \in 0 .. (ysize \div tile_size) - 1 |->
    [tile_x \in 0 .. (xsize \div tile_size) - 1 |->
      RMaxOver(RZero,
        {distmap[y][x] : y \in tile_size * tile_y .. tile_size * (tile_y + 1) - 1,
                         x \in tile_size * tile_x .. tile_size * (tile_x + 1) - 1})]]

\* lines 84-89: the positions <<x, y>> of distmap that TileDistMap reads
TileDistMapReads(xsize, ysize, tile_size) ==
  UNION {LET x_max == Min(xsize, tile_size * (tile_x + 1))
             y_max == Min(ysize, tile_size * (tile_y + 1))
         IN (tile_size * tile_x .. x_max - 1) \X (tile_size * tile_y .. y_max - 1) :
           <<tile_x, tile_y>> \in (0 .. CeilDiv(xsize, tile_size) - 1)
                                  \X (0 .. CeilDiv(ysize, tile_size) - 1)}

\* TileDistMap(distmap, tile_size)
TileDistMap(distmap, xsize, ysize, tile_size) ==
  LET tile_xsize == CeilDiv(xsize, tile_size)
      tile_ysize == CeilDiv(ysize, tile_size)
  IN [tile_y \in 0 .. tile_ysize - 1 |->
       [tile_x \in 0 .. tile_xsize - 1 |->
         LET x_max == Min(xsize, tile_size * (tile_x + 1))
             y_max == Min(ysize, tile_size * (tile_y + 1))
         IN RMaxOver(RZero,
              {distmap[y][x] : y \in tile_size * tile_y .. y_max - 1,
                               x \in tile_size * tile_x .. x_max - 1})]]

\* a peak test that leaves the neighbourhood out
IsPeakAboveMin(field, xs, ys, peak_min, local_radius, peak_weight, x0, y0) ==
  RLt(peak_min, field[y0][x0])

\* lines 104-114: whether block (x0, y0) is a peak of field at the given radius
IsPeak(field, xs, ys, peak_min, local_radius, peak_weight, x0, y0) ==
  LET x_min == Max(0, x0 - local_radius)
      y_min == Max(0, y0 - local_radius)
      x_max == Min(xs, x0 + 1 + local_radius)
      y_max == Min(ys, y0 + 1 + local_radius)
      local_max == RMaxOver(peak_min,
                     {field[y][x] : y \in y_min .. y_max - 1, x \in x_min .. x_max - 1})
  IN RLt(RAdd(RMul(RSub(ROne, peak_weight), peak_min), RMul(peak_weight, local_max)),
         field[y0][x0])

\* lines 102-125 from block number k on, in raster order: a peak writes its
\* Chebyshev distance into the cells of its window that hold -1 or more
RECURSIVE DistToPeakLoop(_, _, _, _, _, _, _, _)
DistToPeakLoop(result, k, field, xs, ys, peak_min, local_radius, peak_weight) ==
  IF k >= xs * ys
  THEN result
  ELSE LET x0 == k % xs
           y0 == k \div xs
           x_min == Max(0, x0 - local_radius)
           y_min == Max(0, y0 - local_radius)
           x_max == Min(xs, x0 + 1 + local_radius)
           y_max == Min(ys, y0 + 1 + local_radius)
           written ==
             [y \in 0 .. ys - 1 |->
               [x \in 0 .. xs - 1 |->
                 IF y \in y_min .. y_max - 1 /\ x \in x_min .. x_max - 1
                 THEN LET dist == Max(Abs(y - y0), Abs(x - x0))
                          cur_dist == result[y][x]
                      IN IF cur_dist < 0 \/ cur_dist > dist THEN dist ELSE cur_dist
                 ELSE result[y][x]]]
       IN DistToPeakLoop(
            IF IsPeak(field, xs, ys, peak_min, local_radius, peak_weight, x0, y0)
            THEN written ELSE result,
            k + 1, field, xs, ys, peak_min, local_radius, peak_weight)

\* DistToPeakMap(field, peak_min, local_radius, peak_weight)
DistToPeakMap(field, xs, ys, peak_min, local_radius, peak_weight) ==
  DistToPeakLoop(ImageOf(xs, ys, -1), 0, field, xs, ys, peak_min, local_radius,
                 peak_weight)

\* AdjustQuantVal with the 0.999 of line 134 carried into the clamp of line 137
AdjustQuantValLooseClamp(q, d, factor, qmax) ==
  IF RLe(RMul(<<999, 1000>>, qmax), q)
  THEN [q |-> q, ret |-> FALSE]
  ELSE LET inv_q == RDiv(ROne, q)
           adj_inv_q == RSub(inv_q, RDiv(factor, RAdd(d, ROne)))
       IN [q |-> RDiv(ROne, RMax(RDiv(<<999, 1000>>, qmax), adj_inv_q)), ret |-> TRUE]

\* AdjustQuantVal(&q, d, factor, quant_max): the new *q and the returned flag
AdjustQuantVal(q, d, factor, qmax) ==
  IF RLe(RMul(<<999, 1000>>, qmax), q)
  THEN [q |-> q, ret |-> FALSE]
  ELSE LET inv_q == RDiv(ROne, q)
           adj_inv_q == RSub(inv_q, RDiv(factor, RAdd(d, ROne)))
       IN [q |-> RDiv(ROne, RMax(RDiv(ROne, qmax), adj_inv_q)), ret |-> TRUE]

(***************************************************************************)
(* FindBestQuantization (src/pik.cc:186-276).                              *)
(***************************************************************************)
\* block_xsize(), block_ysize() of the image being encoded
FbqBlockXSize == CeilDiv(FbqXSize, kBlockEdge)
FbqBlockYSize == CeilDiv(FbqYSize, kBlockEdge)

\* Quantizer::SetQuantField(dc, field): true iff q_dc or a q_ac cell differs
SetQuantFieldChanged(dc, field) == dc # quantizer_dc \/ field # quantizer_ac

\* a DC multiplier that follows the scaling of the AC field
kInitialQuantDCScaled(target) ==
  RMul(RDiv(initial_quant_val_dc, target),
       IF outer_iter = 0 THEN ROne ELSE kQuantScale(outer_iter))
\* lines 194-195
kInitialQuantDC(target) == RDiv(initial_quant_val_dc, target)
kInitialQuantAC(target) == RDiv(initial_quant_val_ac, target)

\* the per-pixel distance map of a comparator call whose distances are
\* levels[by][bx] on the pixels of block (bx, by)
ComparatorDistmap(levels) ==
  [y \in 0 .. FbqYSize - 1 |->
    [x \in 0 .. FbqXSize - 1 |-> levels[y \div kBlockEdge][x \div kBlockEdge]]]

\* a budget that never runs out
BudgetExhaustedNever(iter, budget) == FALSE
\* a budget test that lets one more comparison through
BudgetExhaustedLate(iter, budget) == iter > budget
\* the budget test of line 217
BudgetExhausted(iter, budget) == iter >= budget

\* lines 247-261: one pass over all blocks at one radius
AdjustPass(qf, local_radius) ==
  LET Pass(dist_to_peak_map) ==
        LET adj(x, y) == AdjustQuantVal(qf[y][x], <<dist_to_peak_map[y][x], 1>>,
                                        RMul(kAdjSpeed(outer_iter), tile_distmap[y][x]),
                                        quant_max)
            hit(x, y) == dist_to_peak_map[y][x] >= 0
        IN [qf |-> [y \in 0 .. FbqBlockYSize - 1 |->
                     [x \in 0 .. FbqBlockXSize - 1 |->
                       IF hit(x, y) THEN adj(x, y).q ELSE qf[y][x]]],
            changed |-> \E y \in 0 .. FbqBlockYSize - 1, x \in 0 .. FbqBlockXSize - 1 :
                          hit(x, y) /\ adj(x, y).ret]
  IN With(DistToPeakMap(tile_distmap, FbqBlockXSize, FbqBlockYSize,
                        butteraugli_target, local_radius, kPeakWeight), Pass)

\* lines 269-273: quant_field *= kQuantScale[outer_iter]
ScaleField(qf, o) ==
  [y \in DOMAIN qf |-> [x \in DOMAIN qf[y] |-> RMul(qf[y][x], kQuantScale(o))]]

StartFBQ ==
  /\ fbq_pc = "top"
  /\ butteraugli_target \in Targets
  /\ max_butteraugli_iters \in 0 .. MaxIters
  /\ quant_field = ImageOf(FbqBlockXSize, FbqBlockYSize,
                           kInitialQuantAC(butteraugli_target))
  /\ tile_distmap = ImageOf(FbqBlockXSize, FbqBlockYSize, RZero)
  /\ distance = RZero
  /\ outer_iter = 0
  /\ butteraugli_iter = 0
  /\ quant_max = kQuantMaxInit
  /\ changed = FALSE
  /\ radius = 1
  /\ scales_applied = <<>>
  /\ pass_start_field = quant_field
  /\ compared = FALSE
  \* the callers' img.quantizer().SetQuant(1.0); img.Quantize()
  /\ quantizer_dc = ROne
  /\ quantizer_ac = ImageOf(FbqBlockXSize, FbqBlockYSize, ROne)
  /\ num_quantize = 1
  /\ quantized_with = <<quantizer_dc, quantizer_ac>>

\* the state of the parts a specification does not run
IdleImg ==
  /\ quantizer_dc = ROne
  /\ quantizer_ac = ImageOf(1, 1, ROne)
  /\ num_quantize = 0

IdleFBQ ==
  /\ fbq_pc = "idle"
  /\ butteraugli_target = ROne
  /\ max_butteraugli_iters = 0
  /\ quant_field = ImageOf(1, 1, ROne)
  /\ tile_distmap = ImageOf(1, 1, RZero)
  /\ distance = RZero
  /\ outer_iter = 0
  /\ butteraugli_iter = 0
  /\ quant_max = kQuantMaxInit
  /\ changed = FALSE
  /\ radius = 1
  /\ scales_applied = <<>>
  /\ pass_start_field = ImageOf(1, 1, ROne)
  /\ compared = FALSE
  /\ quantized_with = <<ROne, ImageOf(1, 1, ROne)>>

IdleAQV ==
  /\ aqv_pc = "idle"
  /\ aqv_q0 = ROne
  /\ aqv_q = ROne
  /\ aqv_d = RZero
  /\ aqv_factor = RZero
  /\ aqv_quant_max = kQuantMaxInit
  /\ aqv_ret = FALSE

\* a std::string: its size and the quantizer scale it was encoded at
EmptyString == [size |-> 0, scale |-> RZero]

IdleCTS ==
  /\ cts_pc = "idle"
  /\ target_size = 0
  /\ cts_quant_dc = ROne
  /\ cts_quant_ac = ImageOf(1, 1, ROne)
  /\ scale_bad = ROne
  /\ scale_good = ROne
  /\ cts_i = 0
  /\ candidate = EmptyString
  /\ compressed = EmptyString
  /\ cts_result = EmptyString
  /\ enc_scales = <<>>
  /\ enc_fit_seen = FALSE
  /\ enc_last_fit = FALSE
  /\ enc_flips = 0
  /\ enc_fits = <<>>
  /\ num_bisect = 0

IdleCoef ==
  /\ dct_coeffs = <<>>
  /\ ytob_dc = 0
  /\ ytob_ac = <<>>

\* a compressed image before Decode or Quantize
UndefinedImage == [ok |-> FALSE]

IdleRT ==
  /\ rt_pc = "idle"
  /\ rt_bytes = <<>>
  /\ rt_data = <<>>
  /\ dec_ok = FALSE
  /\ dec_img = UndefinedImage
  /\ compressed_size = 0

IdleOpt ==
  /\ opt_pc = "idle"
  /\ opt_minval = 0
  /\ opt_maxval = 0
  /\ opt_start = 0
  /\ opt_end = 0
  /\ resolution = 16
  /\ opt_val = 0
  /\ best_val = 0
  /\ best_objval = 0
  /\ objective = [lo |-> 0, hi |-> 0, down |-> 1, up |-> 1]
  /\ eval_val = 0
  /\ opt_ret = 0

\* a Header before it is filled in
NoHeader == [xsize |-> <<0, 0, 0, 0>>, ysize |-> <<0, 0, 0, 0>>, flags |-> {}]

IdleOTP ==
  /\ otp_pc = "idle"
  /\ params = [butteraugli_distance |-> <<-1, 1>>, target_bitrate |-> <<0, 1>>,
               uniform_quant |-> <<0, 1>>, fast_mode |-> FALSE,
               alpha_channel |-> FALSE]
  /\ opsin_xsize = 0
  /\ opsin_ysize = 0
  /\ modes_run = <<>>
  /\ otp_target_size = 0
  /\ compressed_data = 0
  /\ otp_header = NoHeader
  /\ otp_ret = FALSE
  /\ otp_error = ""

IdleP2P ==
  /\ p2p_pc = "idle"
  /\ compressed_len = 0
  /\ header = NoHeader
  /\ dparams = [max_num_pixels |-> <<0, 0, 0, 0, 0, 0, 0, 0>>,
                check_decompressed_size |-> FALSE]
  /\ byte_pos = 0
  /\ img_constructed = FALSE
  /\ decode_called = FALSE
  /\ p2p_ret = FALSE
  /\ p2p_error = ""
  /\ decoded_size = 0

IdleY2B ==
  /\ y2b_pc = "idle"
  /\ y2b_xsize = 0
  /\ y2b_ysize = 0
  /\ tilex = 0
  /\ tiley = 0
  /\ global_ytob = -1
  /\ tiles_searched = <<>>
  /\ local_rets = <<>>

IdleCall ==
  /\ call_pc = "idle"
  /\ call_args = <<>>
  /\ call_result = <<>>

IdleTopNoY2B == IdleOTP /\ IdleP2P /\ IdleCall
IdleTop == IdleTopNoY2B /\ IdleY2B
IdleExceptFBQ == IdleAQV /\ IdleCTS /\ IdleCoef /\ IdleRT /\ IdleOpt /\ IdleTop
IdleExceptAQV ==
  IdleImg /\ IdleFBQ /\ IdleCTS /\ IdleCoef /\ IdleRT /\ IdleOpt /\ IdleTop
IdleExceptCTS == IdleFBQ /\ IdleAQV /\ IdleCoef /\ IdleRT /\ IdleOpt /\ IdleTop
IdleExceptRT == IdleFBQ /\ IdleAQV /\ IdleCTS /\ IdleOpt /\ IdleTop
IdleExceptOpt ==
  IdleImg /\ IdleFBQ /\ IdleAQV /\ IdleCTS /\ IdleCoef /\ IdleRT /\ IdleTop
IdleExceptOTP ==
  IdleImg /\ IdleFBQ /\ IdleAQV /\ IdleCTS /\ IdleCoef /\ IdleRT /\ IdleOpt /\ IdleP2P
  /\ IdleY2B /\ IdleCall
IdleExceptCall ==
  IdleImg /\ IdleFBQ /\ IdleAQV /\ IdleCTS /\ IdleCoef /\ IdleRT /\ IdleOpt /\ IdleOTP
  /\ IdleP2P /\ IdleY2B
\* FindBestYToBCorrelation runs Optimize on the image's Y-to-B values
IdleExceptY2B == IdleFBQ /\ IdleAQV /\ IdleCTS /\ IdleRT /\ IdleTopNoY2B
IdleExceptP2P ==
  IdleImg /\ IdleFBQ /\ IdleAQV /\ IdleCTS /\ IdleCoef /\ IdleRT /\ IdleOpt /\ IdleOTP
  /\ IdleY2B /\ IdleCall

InitFBQ == StartFBQ /\ IdleExceptFBQ

\* line 215 reports a change, lines 216-218: Quantize, budget used up, break
FBQ_Break ==
  /\ fbq_pc = "top"
  /\ SetQuantFieldChanged(kInitialQuantDC(butteraugli_target), quant_field)
  /\ BudgetExhausted(butteraugli_iter, max_butteraugli_iters)
  /\ quantizer_dc' = kInitialQuantDC(butteraugli_target)
  /\ quantizer_ac' = quant_field
  /\ num_quantize' = num_quantize + 1
  /\ fbq_pc' = "done"
  /\ quantized_with' = <<quantizer_dc', quantizer_ac'>>
  /\ UNCHANGED <<scales_applied, pass_start_field, compared>>
  /\ UNCHANGED otherThanFBQ
  /\ UNCHANGED <<radius, butteraugli_target, max_butteraugli_iters, quant_field, tile_distmap,
                 distance, outer_iter, butteraugli_iter, quant_max, changed>>

\* line 215 reports a change, lines 216-223: Quantize, Compare, TileDistMap
FBQ_Compare ==
  /\ fbq_pc = "top"
  /\ SetQuantFieldChanged(kInitialQuantDC(butteraugli_target), quant_field)
  /\ ~BudgetExhausted(butteraugli_iter, max_butteraugli_iters)
  /\ quantizer_dc' = kInitialQuantDC(butteraugli_target)
  /\ quantizer_ac' = quant_field
  /\ num_quantize' = num_quantize + 1
  /\ \E levels \in [0 .. FbqBlockYSize - 1 -> [0 .. FbqBlockXSize - 1 -> DistLevels]],
        dist \in DistLevels :
       /\ tile_distmap' = TileDistMap(ComparatorDistmap(levels), FbqXSize, FbqYSize,
                                      kBlockEdge)
       /\ distance' = dist
  /\ butteraugli_iter' = butteraugli_iter + 1
  /\ changed' = FALSE
  /\ fbq_pc' = "inner"
  /\ compared' = TRUE
  /\ quantized_with' = <<quantizer_dc', quantizer_ac'>>
  /\ UNCHANGED <<scales_applied, pass_start_field>>
  /\ UNCHANGED otherThanFBQ
  /\ UNCHANGED <<radius, butteraugli_target, max_butteraugli_iters, quant_field, outer_iter,
                 quant_max>>

\* line 215 reports no change, and the image is quantized and compared anyway
FBQ_SkipCompares ==
  /\ fbq_pc = "top"
  /\ ~SetQuantFieldChanged(kInitialQuantDC(butteraugli_target), quant_field)
  /\ num_quantize' = num_quantize + 1
  /\ butteraugli_iter' = butteraugli_iter + 1
  /\ changed' = FALSE
  /\ fbq_pc' = "inner"
  /\ compared' = FALSE
  /\ UNCHANGED <<scales_applied, pass_start_field, quantized_with>>
  /\ UNCHANGED otherThanFBQ
  /\ UNCHANGED <<radius, butteraugli_target, max_butteraugli_iters, quant_field, tile_distmap,
                 distance, outer_iter, quant_max, quantizer_dc, quantizer_ac>>

\* line 215 reports no change: lines 216-240 are skipped
FBQ_Skip ==
  /\ fbq_pc = "top"
  /\ ~SetQuantFieldChanged(kInitialQuantDC(butteraugli_target), quant_field)
  /\ changed' = FALSE
  /\ fbq_pc' = "inner"
  /\ compared' = FALSE
  /\ UNCHANGED <<scales_applied, pass_start_field, quantized_with>>
  /\ UNCHANGED otherThanFBQ
  /\ UNCHANGED <<radius, butteraugli_target, max_butteraugli_iters, quant_field, tile_distmap,
                 distance, outer_iter, butteraugli_iter, quant_max, quantizer_dc,
                 quantizer_ac, num_quantize>>

\* line 243: the while condition holds, line 244 starts the radius loop
FBQ_WhileEnter ==
  /\ fbq_pc = "inner"
  /\ ~changed /\ RLt(butteraugli_target, distance)
  /\ radius' = 1
  /\ fbq_pc' = "radius"
  /\ pass_start_field' = quant_field
  /\ UNCHANGED <<scales_applied, compared, quantized_with>>
  /\ UNCHANGED otherThanFBQ
  /\ UNCHANGED <<butteraugli_target, max_butteraugli_iters, quant_field, tile_distmap,
                 distance, outer_iter, butteraugli_iter, quant_max, changed,
                 quantizer_dc, quantizer_ac, num_quantize>>

\* lines 244-262: the pass of one radius over all blocks
FBQ_RadiusPass ==
  /\ fbq_pc = "radius"
  /\ radius <= 4 /\ ~changed
  /\ \E pass \in {AdjustPass(quant_field, radius)} :
       /\ quant_field' = pass.qf
       /\ changed' = pass.changed
  /\ radius' = radius + 1
  /\ UNCHANGED fbqHist
  /\ UNCHANGED otherThanFBQ
  /\ UNCHANGED <<fbq_pc, butteraugli_target, max_butteraugli_iters, tile_distmap,
                 distance, outer_iter, butteraugli_iter, quant_max, quantizer_dc,
                 quantizer_ac, num_quantize>>

\* the radius loop ends; lines 263-264: break at the cap, else raise quant_max
FBQ_RadiusDone ==
  /\ fbq_pc = "radius"
  /\ ~(radius <= 4 /\ ~changed)
  /\ IF RLe(kQuantMaxCap, quant_max)
     THEN fbq_pc' = "tail" /\ quant_max' = quant_max
     ELSE /\ fbq_pc' = "inner"
          /\ quant_max' = IF changed THEN quant_max
                          ELSE RAdd(quant_max, kQuantMaxStep)
  /\ UNCHANGED fbqHist
  /\ UNCHANGED otherThanFBQ
  /\ UNCHANGED <<butteraugli_target, max_butteraugli_iters, quant_field, tile_distmap,
                 distance, outer_iter, butteraugli_iter, changed, radius,
                 quantizer_dc, quantizer_ac, num_quantize>>

\* line 243: the while condition fails
FBQ_InnerExit ==
  /\ fbq_pc = "inner"
  /\ ~(~changed /\ RLt(butteraugli_target, distance))
  /\ fbq_pc' = "tail"
  /\ UNCHANGED fbqHist
  /\ UNCHANGED otherThanFBQ
  /\ UNCHANGED <<radius, butteraugli_target, max_butteraugli_iters, quant_field, tile_distmap,
                 distance, outer_iter, butteraugli_iter, quant_max, changed,
                 quantizer_dc, quantizer_ac, num_quantize>>

\* a tail that scales the field before the second break as well
FBQ_TailScalesLast ==
  /\ fbq_pc = "tail"
  /\ IF changed
     THEN fbq_pc' = "top" /\ UNCHANGED <<outer_iter, quant_field, scales_applied>>
     ELSE /\ outer_iter' = outer_iter + 1
          /\ IF outer_iter + 1 = kMaxOuterIters
             THEN /\ fbq_pc' = "done"
                  /\ quant_field' = ScaleField(quant_field, outer_iter + 1)
                  /\ UNCHANGED scales_applied
             ELSE /\ fbq_pc' = "top"
                  /\ quant_field' = ScaleField(quant_field, outer_iter + 1)
                  /\ scales_applied' =
                       Append(scales_applied, kQuantScale(outer_iter + 1))
  /\ UNCHANGED <<pass_start_field, compared, quantized_with>>
  /\ UNCHANGED otherThanFBQ
  /\ UNCHANGED <<radius, butteraugli_target, max_butteraugli_iters, tile_distmap, distance,
                 butteraugli_iter, quant_max, changed, quantizer_dc, quantizer_ac,
                 num_quantize>>

\* lines 266-274: no change, next outer pass or the second break
FBQ_Tail ==
  /\ fbq_pc = "tail"
  /\ IF changed
     THEN fbq_pc' = "top" /\ UNCHANGED <<outer_iter, quant_field, scales_applied>>
     ELSE /\ outer_iter' = outer_iter + 1
          /\ IF outer_iter + 1 = kMaxOuterIters
             THEN fbq_pc' = "done" /\ UNCHANGED <<quant_field, scales_applied>>
             ELSE /\ fbq_pc' = "top"
                  /\ quant_field' = ScaleField(quant_field, outer_iter + 1)
                  /\ scales_applied' =
                       Append(scales_applied, kQuantScale(outer_iter + 1))
  /\ UNCHANGED <<pass_start_field, compared, quantized_with>>
  /\ UNCHANGED otherThanFBQ
  /\ UNCHANGED <<radius, butteraugli_target, max_butteraugli_iters, tile_distmap, distance,
                 butteraugli_iter, quant_max, changed, quantizer_dc, quantizer_ac,
                 num_quantize>>

NextFBQ ==
  \/ FBQ_Break
  \/ FBQ_Compare
  \/ FBQ_Skip
  \/ FBQ_WhileEnter
  \/ FBQ_RadiusPass
  \/ FBQ_RadiusDone
  \/ FBQ_InnerExit
  \/ FBQ_Tail

SpecFBQ == InitFBQ /\ [][NextFBQ]_vars
\* the encoder is one thread that keeps running until it returns
FairSpecFBQ == SpecFBQ /\ WF_vars(NextFBQ)

\* C1: FindBestQuantization always terminates: every run reaches one of the
\* two break statements of the outer loop.
C1_Terminates == <>(fbq_pc = "done")

\* C2: the number of butteraugli iterations never exceeds 3 * N + 3.
C2_IterBound == butteraugli_iter <= 3 * max_butteraugli_iters + 3
C2_Witness == fbq_pc = "done" /\ max_butteraugli_iters = 2 /\ butteraugli_iter = 2

\* the field FindBestQuantization starts from (line 198)
InitialQuantField ==
  ImageOf(FbqBlockXSize, FbqBlockYSize, kInitialQuantAC(butteraugli_target))

\* C12: with max_butteraugli_iters = 0 the run applies the initial quant
\* field, calls Quantize exactly once and returns: the comparator is never
\* invoked and the field is neither adjusted nor scaled.
C12_ZeroBudget ==
  max_butteraugli_iters = 0 =>
    /\ fbq_pc \in {"top", "done"}
    /\ butteraugli_iter = 0 /\ ~compared
    /\ tile_distmap = ImageOf(FbqBlockXSize, FbqBlockYSize, RZero)
    /\ quant_field = InitialQuantField
    /\ outer_iter = 0 /\ scales_applied = <<>>
    /\ quant_max = kQuantMaxInit
    /\ fbq_pc = "top" => num_quantize = 1
    /\ fbq_pc = "done" =>
         /\ num_quantize = 2
         /\ quantizer_dc = kInitialQuantDC(butteraugli_target)
         /\ quantizer_ac = InitialQuantField
C12_Witness ==
  fbq_pc = "done" /\ max_butteraugli_iters = 0 /\ num_quantize = 2

\* every value of field qf multiplied by f
FieldTimes(qf, f) == [y \in DOMAIN qf |-> [x \in DOMAIN qf[y] |-> RMul(qf[y][x], f)]]

\* C16: the quant field is multiplied by kQuantScale[o] only with o >= 1, so
\* the factor 0.0 of index 0 is never applied: the first no-change exit of
\* the inner loop scales by 0.8, the second by 0.9, and the third ends the
\* run without scaling.
C16_ScaleOrder ==
  /\ [](/\ outer_iter \in 0 .. 3
        /\ scales_applied = SubSeq(<< <<4, 5>>, <<9, 10>> >>, 1, Len(scales_applied))
        /\ Len(scales_applied) = (IF outer_iter = 3 THEN 2 ELSE outer_iter)
        /\ outer_iter = 3 => fbq_pc = "done")
  /\ [][/\ outer_iter' # outer_iter =>
            /\ fbq_pc = "tail" /\ ~changed
            /\ outer_iter' = outer_iter + 1
            /\ outer_iter' = 1 => quant_field' = FieldTimes(quant_field, <<4, 5>>)
            /\ outer_iter' = 2 => quant_field' = FieldTimes(quant_field, <<9, 10>>)
            /\ outer_iter' = 3 => quant_field' = quant_field /\ fbq_pc' = "done"
        /\ (fbq_pc = "tail" /\ outer_iter' = outer_iter) =>
             quant_field' = quant_field]_vars
C16_Witness ==
  fbq_pc = "done" /\ outer_iter = 3 /\ scales_applied = << <<4, 5>>, <<9, 10>> >>

\* the radius loop of lines 244-262 has just run radii 1..4 without a change
FullPassNoChange == fbq_pc = "radius" /\ radius = 5 /\ ~changed

\* C17: quant_max stays in [4.0, 8.0] and never decreases; it is raised, by
\* exactly 0.5, only after a full pass over radii 1..4 that changed no quant
\* value while quant_max < 8; at quant_max = 8 a pass with no change ends the
\* inner loop.
C17_QuantMax ==
  /\ [](RLe(<<4, 1>>, quant_max) /\ RLe(quant_max, <<8, 1>>))
  /\ [][quant_max' # quant_max =>
          /\ quant_max' = RAdd(quant_max, <<1, 2>>)
          /\ FullPassNoChange
          /\ quant_field = pass_start_field
          /\ RLt(quant_max, <<8, 1>>)]_vars
  /\ [][(FullPassNoChange /\ quant_max = <<8, 1>>) =>
          (fbq_pc' = "tail" /\ quant_max' = quant_max)]_vars
C17_Witness ==
  fbq_pc = "tail" /\ radius = 5 /\ ~changed /\ quant_max = <<8, 1>>

\* the outcome of SetQuantField at line 215 in the current state
FieldChangeReported ==
  SetQuantFieldChanged(kInitialQuantDC(butteraugli_target), quant_field)

\* C18: Quantize is called, the tile map replaced and butteraugli_iter
\* incremented only in an outer iteration whose SetQuantField reported a
\* change; in an iteration without a change none of them happens and the
\* inner loop runs on the previous distance and tile map.
C18_CompareOnlyOnChange ==
  [][/\ (\/ num_quantize' # num_quantize
         \/ butteraugli_iter' # butteraugli_iter
         \/ tile_distmap' # tile_distmap
         \/ distance' # distance) =>
          /\ fbq_pc = "top" /\ FieldChangeReported
          /\ num_quantize' = num_quantize + 1
          /\ butteraugli_iter' \in {butteraugli_iter, butteraugli_iter + 1}
     /\ butteraugli_iter' # butteraugli_iter => compared'
     /\ (fbq_pc = "top" /\ ~FieldChangeReported) =>
          /\ fbq_pc' = "inner" /\ ~compared'
          /\ UNCHANGED <<num_quantize, butteraugli_iter, tile_distmap, distance>>]_vars
C18_Witness ==
  fbq_pc = "radius" /\ ~compared /\ butteraugli_iter > 0

\* C25: when FindBestQuantization returns, through either break, the
\* quantizer's AC field is the loop's quant_field and the coefficients come
\* from a Quantize call made after the quantizer last changed: no adjustment
\* or scaling of quant_field is left unapplied.
C25_ReturnApplied ==
  fbq_pc = "done" =>
    /\ quantizer_ac = quant_field
    /\ quantized_with = <<quantizer_dc, quantizer_ac>>
C25_Witness ==
  /\ fbq_pc = "done" /\ outer_iter = 3
  /\ quantizer_ac = quant_field /\ quant_field # InitialQuantField

\* C28: FindBestQuantization never changes the DC multiplier after the
\* first SetQuantField: every call passes initial_quant_val_dc / target
\* (1.0625 / target); only the AC field is adjusted or scaled between calls.
C28_DCFixed ==
  /\ [](num_quantize >= 2 => quantizer_dc = RDiv(<<17, 16>>, butteraugli_target))
  /\ [][quantizer_dc' # quantizer_dc => (fbq_pc = "top" /\ num_quantize = 1)]_vars
  /\ [][butteraugli_target' = butteraugli_target]_vars
C28_Witness ==
  /\ fbq_pc = "done" /\ outer_iter = 3 /\ num_quantize >= 4
  /\ quantizer_dc = RDiv(<<17, 16>>, butteraugli_target)
  /\ quantizer_ac # InitialQuantField

(***************************************************************************)
(* AdjustQuantVal (src/pik.cc:131-139) as a function of its arguments.     *)
(***************************************************************************)
InitAQV ==
  /\ aqv_pc = "call"
  /\ aqv_q0 \in AqvQs
  /\ aqv_q = aqv_q0
  /\ aqv_d \in AqvDs
  /\ aqv_factor \in AqvFactors
  /\ aqv_quant_max \in {Rat(m[1], m[2]) : m \in AqvQuantMaxes}
  /\ aqv_ret = FALSE
  /\ IdleExceptAQV

AQV_Call ==
  /\ aqv_pc = "call"
  /\ \E res \in {AdjustQuantVal(aqv_q, aqv_d, aqv_factor, aqv_quant_max)} :
       /\ aqv_q' = res.q
       /\ aqv_ret' = res.ret
  /\ aqv_pc' = "done"
  /\ UNCHANGED <<aqv_q0, aqv_d, aqv_factor, aqv_quant_max>>
  /\ UNCHANGED otherThanAQV

NextAQV == AQV_Call

SpecAQV == InitAQV /\ [][NextAQV]_vars

\* C9: AdjustQuantVal returns false if and only if the call left *q
\* unmodified.
C9_FalseIffUnmodified == aqv_pc = "done" => (aqv_ret = FALSE <=> aqv_q = aqv_q0)

ScaleImage(scale, image) ==
  [y \in DOMAIN image |-> [x \in DOMAIN image[y] |-> RMul(scale, image[y][x])]]

\* a DC multiplier scaled as much as the AC field
ScaleDCFull(scale) == scale
\* line 418: scale_dc = 0.8 * scale + 0.2
ScaleDC(scale) == RAdd(RMul(<<4, 5>>, scale), <<1, 5>>)

\* ScaleQuantizationMap(quant_dc, quant_field_ac, scale, img): the quantizer
\* it leaves and the flag it returns; it calls Quantize() once
ScaleQuantizationMap(quant_dc, quant_field_ac, scale) ==
  [dc |-> RMul(ScaleDC(scale), quant_dc),
   ac |-> ScaleImage(scale, quant_field_ac),
   changed |-> SetQuantFieldChanged(RMul(ScaleDC(scale), quant_dc),
                                    ScaleImage(scale, quant_field_ac))]

\* a halving loop of nine passes
HalvingMoreNine(i) == i < 9
\* line 439: the halving loop goes on
HalvingMore(i) == i < 10
\* line 458: the bisection loop goes on
BisectMore(i) == i < 16
\* a halving step that keeps only candidates below the target
HalvingFitsStrict(size, target) == size < target
\* line 442: the candidate of a halving step is kept
HalvingFits(size, target) == size <= target
\* in the bisection no candidate is kept
BisectFitsNever(size, target) == FALSE
\* in the bisection every candidate is kept
BisectFitsAlways(size, target) == TRUE
\* line 464: the candidate of a bisection step is kept
BisectFits(size, target) == size <= target

\* a bisection that tries the failing end again
BisectScaleAtBad(bad, good) == bad
\* line 459: scale = 0.5 * (scale_bad + scale_good)
BisectScale(bad, good) == RMul(<<1, 2>>, RAdd(bad, good))

\* img->Encode(): the encoder is external; an encoding is told by the scale
\* it was made at, and its size is any of 1..MaxEncSize
EncodeOutcomes(scale) ==
  {[size |-> n, scale |-> scale] :
     n \in {m \in 1 .. MaxEncSize :
              \/ Len(enc_scales) = 0
              \/ (m <= target_size) = enc_last_fit
              \/ enc_flips < MaxFlips}}

\* the history of Encode calls after one more call
EncodeHistory(enc) ==
  /\ enc_scales' = Append(enc_scales, enc.scale)
  /\ enc_fit_seen' = (enc_fit_seen \/ enc.size <= target_size)
  /\ enc_last_fit' = (enc.size <= target_size)
  /\ enc_fits' = Append(enc_fits, enc.size <= target_size)
  /\ enc_flips' = IF Len(enc_scales) > 0 /\ (enc.size <= target_size) # enc_last_fit
                  THEN enc_flips + 1 ELSE enc_flips

\* the caller has run FindBestQuantization at target 1.0; lines 432-438
InitCTS ==
  /\ cts_pc = "halving"
  /\ target_size \in TargetSizes
  /\ quantizer_dc = kInitialQuantDC(ROne)
  /\ quantizer_ac \in {[y \in {0} |-> [x \in 0 .. 1 |-> f[x + 1]]] : f \in BaselineFields}
  /\ num_quantize = 0
  /\ cts_quant_dc = quantizer_dc
  /\ cts_quant_ac = quantizer_ac
  /\ scale_bad = ROne
  /\ scale_good = ROne
  /\ cts_i = 0
  /\ candidate = EmptyString
  /\ compressed = EmptyString
  /\ cts_result = EmptyString
  /\ enc_scales = <<>>
  /\ enc_fit_seen = FALSE
  /\ enc_last_fit = FALSE
  /\ enc_flips = 0
  /\ enc_fits = <<>>
  /\ num_bisect = 0
  /\ IdleExceptCTS

\* lines 439-448: one pass of the halving loop
CTS_HalvingStep ==
  /\ cts_pc = "halving"
  /\ HalvingMore(cts_i)
  /\ \E sqm \in {ScaleQuantizationMap(cts_quant_dc, cts_quant_ac, scale_good)} :
       /\ quantizer_dc' = sqm.dc
       /\ quantizer_ac' = sqm.ac
  /\ num_quantize' = num_quantize + 1
  /\ \E enc \in EncodeOutcomes(scale_good) :
       /\ candidate' = enc
       /\ EncodeHistory(enc)
       /\ IF HalvingFits(enc.size, target_size)
          THEN /\ compressed' = enc
               /\ cts_pc' = "check"
               /\ UNCHANGED <<scale_bad, scale_good, cts_i>>
          ELSE /\ scale_bad' = scale_good
               /\ scale_good' = RMul(scale_good, <<1, 2>>)
               /\ cts_i' = cts_i + 1
               /\ UNCHANGED <<compressed, cts_pc>>
  /\ UNCHANGED <<target_size, cts_quant_dc, cts_quant_ac, cts_result, num_bisect>>
  /\ UNCHANGED otherThanCTS

\* line 439: the halving loop ends without a fitting candidate
CTS_HalvingEnd ==
  /\ cts_pc = "halving"
  /\ ~HalvingMore(cts_i)
  /\ cts_pc' = "check"
  /\ UNCHANGED <<target_size, cts_quant_dc, cts_quant_ac, scale_bad, scale_good, cts_i,
                 candidate, compressed, cts_result, enc_scales, enc_fit_seen,
                 enc_last_fit, enc_flips, enc_fits, num_bisect>>
  /\ UNCHANGED imgVars
  /\ UNCHANGED otherThanCTS

\* lines 449-457: the two early returns, else on to the bisection
CTS_Check ==
  /\ cts_pc = "check"
  /\ IF compressed.size = 0
     THEN cts_result' = candidate /\ cts_pc' = "done" /\ cts_i' = cts_i
     ELSE IF scale_good = ROne
          THEN cts_result' = compressed /\ cts_pc' = "done" /\ cts_i' = cts_i
          ELSE cts_result' = cts_result /\ cts_pc' = "bisect" /\ cts_i' = 0
  /\ UNCHANGED <<target_size, cts_quant_dc, cts_quant_ac, scale_bad, scale_good,
                 candidate, compressed, enc_scales, enc_fit_seen, enc_last_fit,
                 enc_flips, enc_fits, num_bisect>>
  /\ UNCHANGED imgVars
  /\ UNCHANGED otherThanCTS

\* lines 458-470: one pass of the bisection loop
CTS_BisectStep ==
  /\ cts_pc = "bisect"
  /\ BisectMore(cts_i)
  /\ \E scale \in {BisectScale(scale_bad, scale_good)} :
     \E sqm \in {ScaleQuantizationMap(cts_quant_dc, cts_quant_ac, scale)} :
       /\ quantizer_dc' = sqm.dc
       /\ quantizer_ac' = sqm.ac
       /\ num_quantize' = num_quantize + 1
       /\ IF ~sqm.changed
          THEN /\ cts_result' = compressed
               /\ cts_pc' = "done"
               /\ UNCHANGED <<scale_bad, scale_good, cts_i, candidate, compressed,
                              enc_scales, enc_fit_seen, enc_last_fit, enc_flips,
                              enc_fits, num_bisect>>
          ELSE \E enc \in EncodeOutcomes(scale) :
                 /\ candidate' = enc
                 /\ EncodeHistory(enc)
                 /\ num_bisect' = num_bisect + 1
                 /\ IF BisectFits(enc.size, target_size)
                    THEN compressed' = enc /\ scale_good' = scale /\ scale_bad' = scale_bad
                    ELSE compressed' = compressed /\ scale_bad' = scale
                         /\ scale_good' = scale_good
                 /\ cts_i' = cts_i + 1
                 /\ UNCHANGED <<cts_result, cts_pc>>
  /\ UNCHANGED <<target_size, cts_quant_dc, cts_quant_ac>>
  /\ UNCHANGED otherThanCTS

\* line 471: the bisection loop ends
CTS_BisectEnd ==
  /\ cts_pc = "bisect"
  /\ ~BisectMore(cts_i)
  /\ cts_result' = compressed
  /\ cts_pc' = "done"
  /\ UNCHANGED <<target_size, cts_quant_dc, cts_quant_ac, scale_bad, scale_good, cts_i,
                 candidate, compressed, enc_scales, enc_fit_seen, enc_last_fit,
                 enc_flips, enc_fits, num_bisect>>
  /\ UNCHANGED imgVars
  /\ UNCHANGED otherThanCTS

NextCTS ==
  \/ CTS_HalvingStep
  \/ CTS_HalvingEnd
  \/ CTS_Check
  \/ CTS_BisectStep
  \/ CTS_BisectEnd

SpecCTS == InitCTS /\ [][NextCTS]_vars

\* C3: if any candidate encoded during the halving or the bisection phase has
\* size <= target_size, the returned byte string has size <= target_size.
C3_FittingReturned ==
  (cts_pc = "done" /\ enc_fit_seen) => cts_result.size <= target_size
\* a run that met fitting and non-fitting candidates in the bisection
C3_Witness ==
  /\ cts_pc = "done" /\ enc_fit_seen /\ num_bisect = 16
  /\ candidate.size > target_size
  /\ cts_result.size <= target_size

\* C4: with a target no scale meets, the halving phase makes exactly 10
\* attempts, at scales 1, 1/2, ..., 1/512, the bisection is not entered, and
\* the candidate of the last attempt, larger than the target, is returned.
C4_NoFitReturnsLast ==
  (cts_pc = "done" /\ ~enc_fit_seen) =>
     /\ Len(enc_scales) = 10
     /\ \A k \in 1 .. 10 : enc_scales[k] = Rat(1, 2 ^ (k - 1))
     /\ num_bisect = 0
     /\ cts_result = candidate
     /\ cts_result.scale = enc_scales[10]
     /\ cts_result.size > target_size
C4_Witness == cts_pc = "done" /\ ~enc_fit_seen /\ target_size = 2

\* C14: when the encoding at scale 1.0, the unscaled baseline field, has
\* size <= target_size, CompressToTargetSize returns exactly that encoding
\* after a single Encode call and without a bisection step: the quant field
\* is never scaled away from the baseline.
C14_BaselineFitsReturned ==
  (Len(enc_fits) >= 1 /\ enc_fits[1]) =>
    /\ cts_pc \in {"check", "done"}
    /\ enc_scales = <<ROne>> /\ enc_fits = <<TRUE>>
    /\ num_quantize = 1 /\ num_bisect = 0
    /\ quantizer_dc = cts_quant_dc /\ quantizer_ac = cts_quant_ac
    /\ cts_pc = "done" =>
         /\ cts_result = candidate
         /\ cts_result.scale = ROne /\ cts_result.size <= target_size
C14_Witness ==
  cts_pc = "done" /\ enc_fits = <<TRUE>> /\ cts_result.size = target_size

\* the scales tried in the bisection whose encoding fit target_size
BisectFitScales ==
  {enc_scales[k] : k \in {j \in Len(enc_scales) - num_bisect + 1 .. Len(enc_scales) :
                             enc_fits[j]}}

\* C15 as stated: the bisection makes at most 16 iterations, and the encoding
\* finally returned is the one made at the smallest scale, among the scales
\* tried in the bisection, whose encoding fits target_size.
C15_SmallestFitReturned ==
  /\ num_bisect <= 16
  /\ (cts_pc = "done" /\ BisectFitScales # {}) =>
       /\ cts_result.scale \in BisectFitScales
       /\ \A s \in BisectFitScales : RLe(cts_result.scale, s)

\* C15 as the code has it: the bisection makes at most 16 iterations, and
\* the encoding finally returned is the one made at the largest scale, among
\* the scales tried in the bisection, whose encoding fits target_size; when
\* none of them fits it is the fitting encoding of the halving phase.
C15_LargestFitReturned ==
  /\ num_bisect <= 16
  /\ (cts_pc = "done" /\ BisectFitScales # {}) =>
       /\ cts_result.scale \in BisectFitScales
       /\ \A s \in BisectFitScales : RLe(s, cts_result.scale)
  /\ (cts_pc = "done" /\ num_bisect > 0 /\ BisectFitScales = {}) =>
       /\ enc_fits[Len(enc_scales) - num_bisect]
       /\ cts_result.scale = enc_scales[Len(enc_scales) - num_bisect]
  /\ cts_pc = "done" => cts_result.scale = scale_good \/ compressed.size = 0
C15_Witness ==
  cts_pc = "done" /\ num_bisect = 16 /\ Cardinality(BisectFitScales) >= 2

\* C26: throughout the bisection phase 0 < scale_good < scale_bad <= 1, an
\* encoding made at scale_bad exceeded target_size, an encoding made at
\* scale_good fit it, and compressed holds the encoding made at the current
\* scale_good.
C26_BisectionBracket ==
  cts_pc = "bisect" =>
    /\ RLt(RZero, scale_good) /\ RLt(scale_good, scale_bad) /\ RLe(scale_bad, ROne)
    /\ \E k \in 1 .. Len(enc_scales) : enc_scales[k] = scale_bad /\ ~enc_fits[k]
    /\ \E k \in 1 .. Len(enc_scales) :
         /\ enc_scales[k] = scale_good /\ enc_fits[k]
         /\ \A j \in 1 .. Len(enc_scales) : enc_scales[j] = scale_good => j = k
    /\ compressed.scale = scale_good /\ compressed.size <= target_size
\* both ends of the bracket were moved by the bisection
C26_Witness ==
  /\ cts_pc = "bisect" /\ num_bisect = 16
  /\ scale_good \in BisectFitScales
  /\ \E k \in Len(enc_scales) - num_bisect + 1 .. Len(enc_scales) :
       enc_scales[k] = scale_bad /\ ~enc_fits[k]

(***************************************************************************)
(* One call of TileDistMap (src/pik.cc:78-97) on a distance map that is    *)
(* flat except for two pixels.                                             *)
(***************************************************************************)
InitTDM ==
  /\ call_pc = "tdm"
  /\ \E size \in TdmSizes, tile_size \in TdmTileSizes, b \in TdmBackground :
     \E v \in TdmValues, w \in TdmValues \cup {b} :
     \E p \in (0 .. size[1] - 1) \X (0 .. size[2] - 1) :
       call_args = [distmap |-> [y \in 0 .. size[2] - 1 |-> [x \in 0 .. size[1] - 1 |->
                                   IF <<x, y>> = p THEN v
                                   ELSE IF <<x, y>> = <<size[1] - 1, size[2] - 1>> THEN w
                                   ELSE b]],
                    xsize |-> size[1], ysize |-> size[2], tile_size |-> tile_size]
  /\ call_result = <<>>
  /\ IdleExceptCall

\* lines 79-96
TDM_Call ==
  /\ call_pc = "tdm"
  /\ call_result' =
       [map |-> TileDistMap(call_args.distmap, call_args.xsize, call_args.ysize,
                            call_args.tile_size),
        reads |-> TileDistMapReads(call_args.xsize, call_args.ysize, call_args.tile_size)]
  /\ call_pc' = "tdm_done"
  /\ UNCHANGED call_args
  /\ UNCHANGED otherThanCall

SpecTDM == InitTDM /\ [][TDM_Call]_vars

\* the number of tiles of edge t that cover n pixels
TilesCovering(n, t) == CHOOSE k \in 0 .. n : k * t >= n /\ (k - 1) * t < n

\* C23: TileDistMap(D, t) returns a map of ceil(xsize / t) x ceil(ysize / t)
\* cells; each cell holds the maximum of 0 and of D over exactly the in-image
\* pixels of its t x t block, and no position at or beyond xsize or ysize is
\* read.  A 9 x 9 image and t = 8 give a 2 x 2 map whose edge cells cover one
\* column or one row.
C23_TileDistMap ==
  call_pc = "tdm_done" =>
    LET D == call_args.distmap
        xs == call_args.xsize
        ys == call_args.ysize
        t == call_args.tile_size
        T == call_result.map
        Block(tx, ty) == {p \in (t * tx .. t * tx + t - 1) \X (t * ty .. t * ty + t - 1) :
                            p[1] < xs /\ p[2] < ys}
    IN /\ DOMAIN T = 0 .. TilesCovering(ys, t) - 1
       /\ \A ty \in DOMAIN T :
            /\ DOMAIN T[ty] = 0 .. TilesCovering(xs, t) - 1
            /\ \A tx \in DOMAIN T[ty] :
                 /\ RLe(RZero, T[ty][tx])
                 /\ \A p \in Block(tx, ty) : RLe(D[p[2]][p[1]], T[ty][tx])
                 /\ \/ T[ty][tx] = RZero
                    \/ \E p \in Block(tx, ty) : D[p[2]][p[1]] = T[ty][tx]
       /\ call_result.reads = (0 .. xs - 1) \X (0 .. ys - 1)
       /\ (xs = 9 /\ ys = 9 /\ t = 8) =>
            /\ DOMAIN T = 0 .. 1 /\ DOMAIN T[0] = 0 .. 1
            /\ Block(1, 0) = {8} \X (0 .. 7)
            /\ Block(0, 1) = (0 .. 7) \X {8}
            /\ Block(1, 1) = {<<8, 8>>}
\* the 9 x 9 image whose largest value lies in the one-pixel corner tile
C23_Witness ==
  /\ call_pc = "tdm_done"
  /\ call_args.xsize = 9 /\ call_args.ysize = 9 /\ call_args.tile_size = 8
  /\ call_result.map[1][1] = <<2, 1>>
  /\ call_result.map[0][0] = <<1, 2>>
  /\ call_result.map[0][1] = <<1, 2>>

(***************************************************************************)
(* One call of DistToPeakMap (src/pik.cc:99-129).                          *)
(***************************************************************************)
InitDTP ==
  /\ call_pc = "dtp"
  /\ \E size \in DtpSizes :
       call_args \in [field : [0 .. size[2] - 1 -> [0 .. size[1] - 1 -> DtpValues]],
                      xsize : {size[1]}, ysize : {size[2]},
                      peak_min : DtpPeakMins, local_radius : DtpRadii,
                      peak_weight : DtpWeights]
  /\ call_result = <<>>
  /\ IdleExceptCall

\* lines 101-128
DTP_Call ==
  /\ call_pc = "dtp"
  /\ call_result' = DistToPeakMap(call_args.field, call_args.xsize, call_args.ysize,
                                  call_args.peak_min, call_args.local_radius,
                                  call_args.peak_weight)
  /\ call_pc' = "dtp_done"
  /\ UNCHANGED call_args
  /\ UNCHANGED otherThanCall

SpecDTP == InitDTP /\ [][DTP_Call]_vars

\* the Chebyshev distance of two cells
Chebyshev(p, q) == Max(Abs(p[1] - q[1]), Abs(p[2] - q[2]))

\* the peaks of the call at hand, by the criterion of C24: the value of the
\* cell exceeds (1 - w) * tau + w * max(tau, max of T over the in-bounds
\* (2r + 1)-square around it)
DtpPeaks ==
  LET T == call_args.field
      cells == (0 .. call_args.xsize - 1) \X (0 .. call_args.ysize - 1)
      r == call_args.local_radius
      tau == call_args.peak_min
      w == call_args.peak_weight
  IN {p \in cells :
        LET around == {T[q[2]][q[1]] : q \in {c \in cells : Chebyshev(c, p) <= r}}
            top == CHOOSE m \in around \cup {tau} : \A e \in around \cup {tau} : RLe(e, m)
        IN RLt(RAdd(RMul(RSub(ROne, w), tau), RMul(w, top)), T[p[2]][p[1]])}

InitSQM ==
  /\ call_pc = "call"
  /\ call_args \in [quant_dc : SqmQuantDCs,
                    quant_field_ac : {[y \in {0} |-> [x \in 0 .. 1 |-> f[x + 1]]] :
                                        f \in BaselineFields},
                    scale : SqmScales]
  /\ call_result = <<>>
  /\ \E before \in SqmScales \cup {RZero} :
       IF before = RZero
       THEN /\ quantizer_dc = call_args.quant_dc
            /\ quantizer_ac = call_args.quant_field_ac
       ELSE /\ quantizer_dc = RMul(ScaleDC(before), call_args.quant_dc)
            /\ quantizer_ac = ScaleImage(before, call_args.quant_field_ac)
  /\ num_quantize = 1
  /\ IdleFBQ /\ IdleAQV /\ IdleCTS /\ IdleCoef /\ IdleRT /\ IdleOpt /\ IdleOTP
  /\ IdleP2P /\ IdleY2B

\* lines 418-426: SetQuantField, Quantize, return changed
SQM_Call ==
  /\ call_pc = "call"
  /\ \E sqm \in {ScaleQuantizationMap(call_args.quant_dc, call_args.quant_field_ac,
                                      call_args.scale)} :
       /\ quantizer_dc' = sqm.dc
       /\ quantizer_ac' = sqm.ac
       /\ call_result' = sqm.changed
  /\ num_quantize' = num_quantize + 1
  /\ call_pc' = "done"
  /\ UNCHANGED call_args
  /\ UNCHANGED otherThanSQM

NextSQM == SQM_Call

SpecSQM == InitSQM /\ [][NextSQM]_vars

\* C22: ScaleQuantizationMap(q_dc, q_ac, s) sets the quantizer to
\* DC = (0.8 * s + 0.2) * q_dc and AC = s * q_ac, so that s = 1 restores the
\* baseline; it calls Quantize on every call, whether or not the field
\* changed, and returns true exactly when the field changed.
C22_ScaleQuantizationMap ==
  [][(call_pc = "call") =>
       (/\ quantizer_dc' = RMul(RAdd(RMul(<<4, 5>>, call_args.scale), <<1, 5>>),
                                call_args.quant_dc)
        /\ quantizer_ac' = FieldTimes(call_args.quant_field_ac, call_args.scale)
        /\ call_args.scale = ROne =>
             /\ quantizer_dc' = call_args.quant_dc
             /\ quantizer_ac' = call_args.quant_field_ac
        /\ num_quantize' = num_quantize + 1
        /\ call_result' = (<<quantizer_dc', quantizer_ac'>> # <<quantizer_dc, quantizer_ac>>))]_vars
\* a call that found the quantizer at the scaled values already
C22_Witness ==
  call_pc = "done" /\ call_result = FALSE /\ num_quantize = 2 /\ call_args.scale = <<3, 4>>

(***************************************************************************)
(* CompressedImage::Encode and CompressedImage::Decode                     *)
(* (declared at src/compressed_image.h:48-51, 86-88): the payload holds    *)
(* the quantizer, the Y-to-B state, and per plane the DC residuals against *)
(* PredictDC followed by the AC coefficients.  The entropy coder is        *)
(* lossless and stands for itself: the symbols are laid out as bytes.      *)
(***************************************************************************)
RECURSIVE Flatten(_)
Flatten(ss) == IF ss = <<>> THEN <<>> ELSE Head(ss) \o Flatten(Tail(ss))

\* a 16-bit coefficient (int16_t) as the unsigned value of its bits, and back
U16(x) == x % 65536
ToInt16NoSign(u) == u
ToInt16(u) == IF u >= 32768 THEN u - 65536 ELSE u
U16Bytes(u) == <<u % 256, u \div 256>>
BytesU16(b) == b[1] + 256 * b[2]

\* a float as the bits of its IEEE-754 single (positive, normal values)
Pow2(e) == IF e >= 0 THEN <<2 ^ e, 1>> ELSE <<1, 2 ^ (0 - e)>>
FloatBits(r) ==
  LET e == CHOOSE k \in -8 .. 7 : RLe(Pow2(k), r) /\ RLt(r, Pow2(k + 1))
      mant == RMul(RSub(RDiv(r, Pow2(e)), ROne), <<8388608, 1>>)
  IN (e + 127) * 8388608 + mant[1]
BitsFloat(bits) ==
  RMul(Rat(8388608 + (bits % 8388608), 8388608), Pow2((bits \div 8388608) - 127))
FloatBytes(r) ==
  With(FloatBits(r), LAMBDA b : <<b % 256, (b \div 256) % 256, (b \div 65536) % 256,
                                  b \div 16777216>>)
BytesFloat(b) == BitsFloat(b[1] + 256 * b[2] + 65536 * b[3] + 16777216 * b[4])

RtBlockXSize == CeilDiv(RtXSize, kBlockEdge)
RtBlockYSize == CeilDiv(RtYSize, kBlockEdge)
RtTileXSize == CeilDiv(RtBlockXSize, kTileToBlockRatio)
RtTileYSize == CeilDiv(RtBlockYSize, kTileToBlockRatio)
RtNumBlocks == RtBlockXSize * RtBlockYSize
RtNumTiles == RtTileXSize * RtTileYSize
\* the block with raster index i (from 1)
BlockX(i) == (i - 1) % RtBlockXSize
BlockY(i) == (i - 1) \div RtBlockXSize
TileX(i) == (i - 1) % RtTileXSize
TileY(i) == (i - 1) \div RtTileXSize

\* PredictDC: the prediction of a DC from its left, top and top-left
\* neighbours (0 outside the image): the median of left, top and the gradient
Median3(a, b, c) ==
  IF a <= b THEN (IF b <= c THEN b ELSE IF a <= c THEN c ELSE a)
  ELSE (IF a <= c THEN a ELSE IF b <= c THEN c ELSE b)
PredictDC(left, top, topleft) == Median3(left, top, left + top - topleft)

\* the DC of block (bx, by) of a plane, 0 outside the image
DCAt(plane, bx, by) == IF bx < 0 \/ by < 0 THEN 0 ELSE plane[by][bx][1]
\* the residual Encode writes for block (bx, by)
DCResidual(plane, bx, by) ==
  U16(plane[by][bx][1] - PredictDC(DCAt(plane, bx - 1, by), DCAt(plane, bx, by - 1),
                                   DCAt(plane, bx - 1, by - 1)))

\* the two sub-streams of one plane
PlaneBytes(plane) ==
  Flatten([i \in 1 .. RtNumBlocks |->
             U16Bytes(DCResidual(plane, BlockX(i), BlockY(i)))])
  \o Flatten([i \in 1 .. RtNumBlocks |->
                Flatten([k \in 1 .. RtCoeffs - 1 |->
                           U16Bytes(U16(plane[BlockY(i)][BlockX(i)][k + 1]))])])

\* Encode() of the image held in quantizer_dc, quantizer_ac, ytob_dc, ytob_ac
\* and dct_coeffs
Encode ==
  Flatten(<<FloatBytes(quantizer_dc),
            Flatten([i \in 1 .. RtNumBlocks |->
                       FloatBytes(quantizer_ac[BlockY(i)][BlockX(i)])]),
            <<ytob_dc>>,
            [i \in 1 .. RtNumTiles |-> ytob_ac[TileY(i)][TileX(i)]],
            Flatten([c \in 1 .. 3 |-> PlaneBytes(dct_coeffs[c - 1])])>>)

\* the byte offsets of the parts of a payload
QuantDCOffset == 0
QuantACOffset == QuantDCOffset + 4
YToBDCOffset == QuantACOffset + 4 * RtNumBlocks
YToBACOffset == YToBDCOffset + 1
PlanesOffset == YToBACOffset + RtNumTiles
PlaneLength == 2 * RtNumBlocks * RtCoeffs
PayloadLength == PlanesOffset + 3 * PlaneLength

\* n bytes of data after the first off
Bytes(data, off, n) == SubSeq(data, off + 1, off + n)

\* the DC Decode rebuilds for block (bx, by) of the plane stored at off
RECURSIVE DecodeDC(_, _, _, _)
DecodeDC(data, off, bx, by) ==
  IF bx < 0 \/ by < 0 THEN 0
  ELSE ToInt16(U16(PredictDC(DecodeDC(data, off, bx - 1, by),
                             DecodeDC(data, off, bx, by - 1),
                             DecodeDC(data, off, bx - 1, by - 1))
                   + BytesU16(Bytes(data, off + 2 * (by * RtBlockXSize + bx), 2))))

\* the AC coefficient k (from 1) of block (bx, by) of the plane stored at off
DecodeAC(data, off, bx, by, k) ==
  ToInt16(BytesU16(Bytes(data, off + 2 * RtNumBlocks
                               + 2 * ((by * RtBlockXSize + bx) * (RtCoeffs - 1) + k - 1), 2)))

\* Decode(data, data_size, &compressed_size): the image it leaves
Decode(data) ==
  IF Len(data) < PayloadLength THEN UndefinedImage
  ELSE [ok |-> TRUE,
        quantizer_dc |-> BytesFloat(Bytes(data, QuantDCOffset, 4)),
        quantizer_ac |-> [by \in 0 .. RtBlockYSize - 1 |-> [bx \in 0 .. RtBlockXSize - 1 |->
            BytesFloat(Bytes(data, QuantACOffset + 4 * (by * RtBlockXSize + bx), 4))]],
        ytob_dc |-> data[YToBDCOffset + 1],
        ytob_ac |-> [ty \in 0 .. RtTileYSize - 1 |-> [tx \in 0 .. RtTileXSize - 1 |->
            data[YToBACOffset + ty * RtTileXSize + tx + 1]]],
        dct_coeffs |-> [c \in 0 .. 2 |-> [by \in 0 .. RtBlockYSize - 1 |->
                         [bx \in 0 .. RtBlockXSize - 1 |->
            [k \in 1 .. RtCoeffs |->
               IF k = 1 THEN DecodeDC(data, PlanesOffset + c * PlaneLength, bx, by)
               ELSE DecodeAC(data, PlanesOffset + c * PlaneLength, bx, by, k - 1)]]]],
        compressed_size |-> PayloadLength]

\* a quantized image: plane 0 takes any DC values, the other planes the
\* same values at the blocks mirrored; the AC coefficients take one value
InitRT ==
  /\ rt_pc = "encode"
  /\ quantizer_dc \in RtQuantDCs
  /\ \E q \in RtQuantACs : quantizer_ac = ImageOf(RtBlockXSize, RtBlockYSize, q)
  /\ num_quantize = 1
  /\ ytob_dc \in RtYToBDCs
  /\ \E v \in RtYToBACs : ytob_ac = ImageOf(RtTileXSize, RtTileYSize, v)
  /\ \E dc \in [0 .. RtNumBlocks - 1 -> DCVals], ac \in ACVals :
       dct_coeffs = [c \in 0 .. 2 |-> [by \in 0 .. RtBlockYSize - 1 |->
                      [bx \in 0 .. RtBlockXSize - 1 |->
          [k \in 1 .. RtCoeffs |->
             IF k = 1 THEN dc[(by * RtBlockXSize + bx + c) % RtNumBlocks] ELSE ac]]]]
  /\ rt_bytes = <<>>
  /\ rt_data = <<>>
  /\ dec_ok = FALSE
  /\ dec_img = UndefinedImage
  /\ compressed_size = 0
  /\ IdleExceptRT

\* std::string bytes = img.Encode(); the caller may append further bytes
RT_Encode ==
  /\ rt_pc = "encode"
  /\ \E enc \in {Encode}, trailer \in RtTrailers :
       /\ rt_bytes' = enc
       /\ rt_data' = enc \o trailer
  /\ rt_pc' = "decode"
  /\ UNCHANGED <<dec_ok, dec_img, compressed_size>>
  /\ UNCHANGED <<imgVars, coefVars>>
  /\ UNCHANGED otherThanRT

\* CompressedImage img2(xsize, ysize); img2.Decode(data, size, &compressed_size)
RT_Decode ==
  /\ rt_pc = "decode"
  /\ \E dec \in {Decode(rt_data)} :
       /\ dec_ok' = dec.ok
       /\ dec_img' = dec
       /\ compressed_size' = IF dec.ok THEN dec.compressed_size ELSE compressed_size
  /\ rt_pc' = "done"
  /\ UNCHANGED <<rt_bytes, rt_data>>
  /\ UNCHANGED <<imgVars, coefVars>>
  /\ UNCHANGED otherThanRT

NextRT ==
  \/ RT_Encode
  \/ RT_Decode

SpecRT == InitRT /\ [][NextRT]_vars

EvalAt(obj, val) ==
  IF val < obj.lo THEN (obj.lo - val) * obj.down
  ELSE IF val > obj.hi THEN (val - obj.hi) * obj.up
  ELSE 0

\* a narrowing that starts the next sweep at best_val
NarrowStartAtBest(minval, best, res) == Max(minval, best)
\* line 368
NarrowStart(minval, best, res) == Max(minval, best - res + 1)
\* the end of the next sweep without the bound maxval
NarrowEndUnclamped(maxval, best, res) == best + res - 1
\* line 369
NarrowEnd(maxval, best, res) == Min(maxval, best + res - 1)

\* a call with best_val in [minval, maxval] and *best_objval = eval(best_val);
\* lines 358-360
InitOpt ==
  /\ opt_pc = "sweep"
  /\ \E r \in OptRanges : opt_minval = r[1] /\ opt_maxval = r[2]
  /\ best_val \in {v \in OptStarts : opt_minval <= v /\ v <= opt_maxval}
  /\ \E lo \in opt_minval .. opt_maxval, w \in 0 .. OptMaxFlat, dn \in OptSlopes,
        up \in OptSlopes :
       /\ lo + w <= opt_maxval
       /\ objective = [lo |-> lo, hi |-> lo + w, down |-> dn, up |-> up]
  /\ best_objval = EvalAt(objective, best_val)
  /\ eval_val = best_val
  /\ opt_start = opt_minval
  /\ opt_end = opt_maxval
  /\ resolution = 16
  /\ opt_val = opt_start
  /\ opt_ret = 0
  /\ IdleExceptOpt

\* lines 358-360: the locals of Optimize on entry
OptimizeEntry(minval, maxval) ==
  /\ opt_pc' = "sweep"
  /\ opt_minval' = minval
  /\ opt_maxval' = maxval
  /\ opt_start' = minval
  /\ opt_end' = maxval
  /\ resolution' = 16
  /\ opt_val' = minval

\* lines 361-367: one pass of the inner loop, eval returning objval
OptimizeEvalStep(objval) ==
  /\ opt_pc = "sweep"
  /\ opt_val <= opt_end
  /\ eval_val' = opt_val
  /\ IF objval < best_objval
     THEN best_val' = opt_val /\ best_objval' = objval
     ELSE UNCHANGED <<best_val, best_objval>>
  /\ opt_val' = opt_val + resolution
  /\ UNCHANGED <<opt_pc, opt_minval, opt_maxval, opt_start, opt_end, resolution,
                 objective, opt_ret>>

\* lines 368-369 and the step of line 360: the sweep is over, narrow the range
OptimizeNarrowStep ==
  /\ opt_pc = "sweep"
  /\ opt_val > opt_end
  /\ opt_start' = NarrowStart(opt_minval, best_val, resolution)
  /\ opt_end' = NarrowEnd(opt_maxval, best_val, resolution)
  /\ resolution' = resolution \div 4
  /\ opt_val' = opt_start'
  /\ opt_pc' = IF resolution \div 4 >= 1 THEN "sweep" ELSE "final"
  /\ UNCHANGED <<opt_minval, opt_maxval, best_val, best_objval, objective, eval_val,
                 opt_ret>>

\* lines 371-372
OptimizeReturnStep ==
  /\ opt_pc = "final"
  /\ eval_val' = best_val
  /\ opt_ret' = best_val
  /\ opt_pc' = "done"
  /\ UNCHANGED <<opt_minval, opt_maxval, opt_start, opt_end, resolution, opt_val,
                 best_val, best_objval, objective>>

OPT_Eval == OptimizeEvalStep(EvalAt(objective, opt_val)) /\ UNCHANGED otherThanOpt
OPT_Narrow == OptimizeNarrowStep /\ UNCHANGED otherThanOpt
OPT_Return == OptimizeReturnStep /\ UNCHANGED otherThanOpt

NextOpt ==
  \/ OPT_Eval
  \/ OPT_Narrow
  \/ OPT_Return

SpecOpt == InitOpt /\ [][NextOpt]_vars

\* the objective attains its minimum over [opt_minval, opt_maxval] at v
IsGlobalMin(v) ==
  /\ opt_minval <= v /\ v <= opt_maxval
  /\ \A u \in opt_minval .. opt_maxval : EvalAt(objective, v) <= EvalAt(objective, u)

\* C8 as stated: on a unimodal objective Optimize returns a value at which
\* the objective attains its global minimum over [minval, maxval], and among
\* tied minimisers the lowest.
C8_GlobalMinLowestTie ==
  opt_pc = "done" =>
     /\ IsGlobalMin(opt_ret)
     /\ \A u \in opt_minval .. opt_ret - 1 : ~IsGlobalMin(u)

\* C8 as amended: on an objective strictly decreasing down to its minimisers
\* and strictly increasing after them, Optimize returns a value at which the
\* objective attains its global minimum over [minval, maxval], leaves the
\* minimum in *best_objval and eval set to the value returned.
C8_GlobalMin ==
  opt_pc = "done" =>
     /\ IsGlobalMin(opt_ret)
     /\ best_objval = EvalAt(objective, opt_ret)
     /\ eval_val = opt_ret
\* a search that moved off its start value and ended on a flat bottom, above
\* the lowest minimiser
C8_Witness ==
  /\ opt_pc = "done"
  /\ opt_minval = 0 /\ opt_maxval = 255
  /\ objective.lo < objective.hi
  /\ objective.lo < opt_ret /\ opt_ret <= objective.hi
  /\ EvalAt(objective, kStartYToB) > 0

(***************************************************************************)
(* FindBestYToBCorrelation with EvalGlobalYToB and EvalLocalYToB           *)
(* (src/pik.cc:278-353, 375-387).  The sizes eval returns come from the    *)
(* entropy coder's histograms: each call of Optimize is given one of a few *)
(* objectives, SizeAt.  Quantize is counted, the coefficients it rewrites  *)
(* only feed the objective.                                                *)
(***************************************************************************)
\* block_xsize(), block_ysize(), tile_xsize(), tile_ysize() of the image
Y2BBlockXSize == CeilDiv(y2b_xsize, kBlockEdge)
Y2BBlockYSize == CeilDiv(y2b_ysize, kBlockEdge)
tile_xsize == CeilDiv(Y2BBlockXSize, kTileToBlockRatio)
tile_ysize == CeilDiv(Y2BBlockYSize, kTileToBlockRatio)

\* ytob_ac_ holds its tiles row by row
TileIndex(tx, ty) == ty * tile_xsize + tx + 1

\* the encoded size eval reports at val
SizeAt(obj, val) == obj.base + EvalAt(obj, val)

\* EvalGlobalYToB::SetVal, lines 280-285, on ytob_ac_
GlobalSetVal(ac, ytob) == [i \in DOMAIN ac |-> ytob]

\* a SetVal of eval_local that writes every tile
LocalSetValAll(ac, tx, ty, ytob) == [i \in DOMAIN ac |-> ytob]
\* EvalLocalYToB::SetVal, line 315, on ytob_ac_
LocalSetVal(ac, tx, ty, ytob) == [ac EXCEPT ![TileIndex(tx, ty)] = ytob]

\* a tile loop with tilex outside and tiley inside
NextTileColumnMajor(tx, ty) ==
  IF ty + 1 < tile_ysize THEN <<tx, ty + 1>>
  ELSE IF tx + 1 < tile_xsize THEN <<tx + 1, 0>>
  ELSE <<0, tile_ysize>>
\* lines 381-382: the tile after (tx, ty); tiley = tile_ysize ends the loops
NextTile(tx, ty) ==
  IF tx + 1 < tile_xsize THEN <<tx + 1, ty>> ELSE <<0, ty + 1>>

\* the image has been quantized once by the caller (line 394)
InitY2B ==
  /\ y2b_pc = "start"
  /\ \E sz \in Y2BSizes : y2b_xsize = sz[1] /\ y2b_ysize = sz[2]
  /\ tilex = 0
  /\ tiley = 0
  /\ global_ytob = -1
  /\ tiles_searched = <<>>
  /\ local_rets = <<>>
  /\ dct_coeffs = <<>>
  /\ ytob_dc \in Y2BInitial
  /\ ytob_ac = [i \in 1 .. tile_xsize * tile_ysize |-> ytob_dc]
  /\ quantizer_dc = ROne
  /\ quantizer_ac = ImageOf(1, 1, ROne)
  /\ num_quantize = 1
  /\ opt_pc = "idle"
  /\ opt_minval = 0
  /\ opt_maxval = 0
  /\ opt_start = 0
  /\ opt_end = 0
  /\ resolution = 16
  /\ opt_val = 0
  /\ best_val = 0
  /\ best_objval = 0
  /\ objective \in GlobalObjectives
  /\ eval_val = 0
  /\ opt_ret = 0
  /\ IdleExceptY2B

\* lines 377-379: best_size = eval_global(kStartYToB), then the entry of the
\* global Optimize
Y2B_Start ==
  /\ y2b_pc = "start"
  /\ ytob_dc' = kStartYToB
  /\ ytob_ac' = GlobalSetVal(ytob_ac, kStartYToB)
  /\ num_quantize' = num_quantize + 1
  /\ eval_val' = kStartYToB
  /\ best_objval' = SizeAt(objective, kStartYToB)
  /\ best_val' = kStartYToB
  /\ OptimizeEntry(0, 255)
  /\ y2b_pc' = "global"
  /\ UNCHANGED <<objective, opt_ret, dct_coeffs, quantizer_dc, quantizer_ac>>
  /\ UNCHANGED <<y2b_xsize, y2b_ysize, tilex, tiley, global_ytob, tiles_searched,
                 local_rets>>
  /\ UNCHANGED otherThanY2B

\* one eval_global(val) of the global Optimize
Y2B_GlobalEval ==
  /\ y2b_pc = "global"
  /\ OptimizeEvalStep(SizeAt(objective, opt_val))
  /\ ytob_dc' = opt_val
  /\ ytob_ac' = GlobalSetVal(ytob_ac, opt_val)
  /\ num_quantize' = num_quantize + 1
  /\ UNCHANGED <<dct_coeffs, quantizer_dc, quantizer_ac>>
  /\ UNCHANGED y2bVars
  /\ UNCHANGED otherThanY2B

Y2B_GlobalNarrow ==
  /\ y2b_pc = "global"
  /\ OptimizeNarrowStep
  /\ UNCHANGED <<imgVars, coefVars, y2bVars>>
  /\ UNCHANGED otherThanY2B

\* lines 371-372 of the global Optimize, its result stored at line 379, and
\* line 380
Y2B_GlobalReturn ==
  /\ y2b_pc = "global"
  /\ OptimizeReturnStep
  /\ ytob_dc' = best_val
  /\ ytob_ac' = GlobalSetVal(ytob_ac, best_val)
  /\ num_quantize' = num_quantize + 1
  /\ global_ytob' = best_val
  /\ tilex' = 0
  /\ tiley' = 0
  /\ y2b_pc' = "tile"
  /\ UNCHANGED <<dct_coeffs, quantizer_dc, quantizer_ac>>
  /\ UNCHANGED <<y2b_xsize, y2b_ysize, tiles_searched, local_rets>>
  /\ UNCHANGED otherThanY2B

\* lines 381-384: the loops go on: SetTile and the entry of a local Optimize
Y2B_TileStart ==
  /\ y2b_pc = "tile"
  /\ tiley < tile_ysize
  /\ tiles_searched' = Append(tiles_searched, <<tilex, tiley>>)
  /\ objective' \in LocalObjectives
  /\ best_val' = global_ytob
  /\ OptimizeEntry(0, 255)
  /\ y2b_pc' = "local"
  /\ UNCHANGED <<best_objval, eval_val, opt_ret>>
  /\ UNCHANGED <<imgVars, coefVars>>
  /\ UNCHANGED <<y2b_xsize, y2b_ysize, tilex, tiley, global_ytob, local_rets>>
  /\ UNCHANGED otherThanY2B

\* one eval_local(val) of a local Optimize
Y2B_LocalEval ==
  /\ y2b_pc = "local"
  /\ OptimizeEvalStep(SizeAt(objective, opt_val))
  /\ ytob_ac' = LocalSetVal(ytob_ac, tilex, tiley, opt_val)
  /\ UNCHANGED <<ytob_dc, dct_coeffs>>
  /\ UNCHANGED <<imgVars, y2bVars>>
  /\ UNCHANGED otherThanY2B

Y2B_LocalNarrow ==
  /\ y2b_pc = "local"
  /\ OptimizeNarrowStep
  /\ UNCHANGED <<imgVars, coefVars, y2bVars>>
  /\ UNCHANGED otherThanY2B

\* lines 371-372 of a local Optimize, then the step of the loops
Y2B_LocalReturn ==
  /\ y2b_pc = "local"
  /\ OptimizeReturnStep
  /\ ytob_ac' = LocalSetVal(ytob_ac, tilex, tiley, best_val)
  /\ local_rets' = Append(local_rets, best_val)
  /\ \E next \in {NextTile(tilex, tiley)} : tilex' = next[1] /\ tiley' = next[2]
  /\ y2b_pc' = "tile"
  /\ UNCHANGED <<ytob_dc, dct_coeffs>>
  /\ UNCHANGED imgVars
  /\ UNCHANGED <<y2b_xsize, y2b_ysize, global_ytob, tiles_searched>>
  /\ UNCHANGED otherThanY2B

\* line 381: the loops are over
Y2B_Done ==
  /\ y2b_pc = "tile"
  /\ ~(tiley < tile_ysize)
  /\ y2b_pc' = "done"
  /\ UNCHANGED <<imgVars, coefVars, optVars>>
  /\ UNCHANGED <<y2b_xsize, y2b_ysize, tilex, tiley, global_ytob, tiles_searched,
                 local_rets>>
  /\ UNCHANGED otherThanY2B

NextY2B ==
  \/ Y2B_Start
  \/ Y2B_GlobalEval
  \/ Y2B_GlobalNarrow
  \/ Y2B_GlobalReturn
  \/ Y2B_TileStart
  \/ Y2B_LocalEval
  \/ Y2B_LocalNarrow
  \/ Y2B_LocalReturn
  \/ Y2B_Done

SpecY2B == InitY2B /\ [][NextY2B]_vars

\* C11: in every state during and after FindBestYToBCorrelation, ytob_dc and
\* every ytob_ac tile value written by the search lie in [0, 255].
C11_YToBInRange ==
  y2b_pc \in {"global", "tile", "local", "done"} =>
    /\ ytob_dc \in 0 .. 255
    /\ \A i \in DOMAIN ytob_ac : ytob_ac[i] \in 0 .. 255
    /\ eval_val \in 0 .. 255
\* the local search of a tile has tried the upper end of the range
C11_Witness ==
  y2b_pc = "local" /\ eval_val = 255 /\ ytob_ac[TileIndex(tilex, tiley)] = 255

\* the k-th tile in raster order, tile_y outside and tile_x inside
RasterTile(k) == <<(k - 1) % tile_xsize, (k - 1) \div tile_xsize>>

\* C19: FindBestYToBCorrelation runs the global search to completion first,
\* then the local search on every tile exactly once, in raster order (tile_y
\* outside, tile_x inside), each search starting from the global best; an
\* image of at most 64 x 64 pixels has exactly one tile.
C19_GlobalThenRaster ==
  /\ [](/\ y2b_pc \in {"start", "global"} => (tiles_searched = <<>> /\ global_ytob = -1)
        /\ y2b_pc \in {"tile", "local", "done"} => global_ytob \in 0 .. 255
        /\ \A k \in DOMAIN tiles_searched : tiles_searched[k] = RasterTile(k)
        /\ y2b_pc = "local" => tiles_searched[Len(tiles_searched)] = <<tilex, tiley>>
        /\ y2b_pc = "done" => Len(tiles_searched) = tile_xsize * tile_ysize
        /\ (y2b_pc = "done" /\ y2b_xsize <= 64 /\ y2b_ysize <= 64) =>
             tiles_searched = << <<0, 0>> >>)
  /\ [][global_ytob' # global_ytob =>
          (y2b_pc = "global" /\ opt_pc = "final" /\ global_ytob' = best_val)]_vars
  /\ [][(y2b_pc = "tile" /\ y2b_pc' = "local") =>
          (best_val' = global_ytob /\ opt_start' = 0 /\ opt_end' = 255)]_vars
C19_Witness ==
  /\ y2b_pc = "done"
  /\ tiles_searched = << <<0, 0>>, <<1, 0>>, <<0, 1>>, <<1, 1>> >>

\* C20: the local stage never writes ytob_dc and, while it searches tile
\* (tx, ty), writes no ytob_ac entry other than that of (tx, ty); at the end
\* ytob_dc is the result of the global Optimize and every tile holds the
\* result of its own local Optimize.
C20_LocalFrame ==
  /\ [][(y2b_pc \in {"tile", "local"}) =>
          (/\ ytob_dc' = ytob_dc
           /\ \A i \in DOMAIN ytob_ac :
                i # TileIndex(tilex, tiley) => ytob_ac'[i] = ytob_ac[i])]_vars
  /\ [](y2b_pc = "done" =>
          /\ ytob_dc = global_ytob
          /\ Len(local_rets) = Len(ytob_ac)
          /\ \A i \in DOMAIN ytob_ac : ytob_ac[i] = local_rets[i])
C20_Witness ==
  /\ y2b_pc = "done"
  /\ \E i, j \in DOMAIN ytob_ac :
       /\ ytob_ac[i] # ytob_ac[j]
       /\ ytob_ac[i] # ytob_dc /\ ytob_ac[j] # ytob_dc

(***************************************************************************)
(* OpsinToPik (src/pik.cc:564-605).                                        *)
(***************************************************************************)
\* x >= 0.0 and x > 0.0 on a float parameter
FGe0(x) == x # "NaN" /\ RLe(RZero, x)
FGt0(x) == x # "NaN" /\ RLt(RZero, x)

\* a chain that tests target_bitrate first
SelectModeBitrateFirst(p) ==
  IF FGt0(p.target_bitrate) THEN "target_size"
  ELSE IF FGe0(p.butteraugli_distance) THEN "perceptual"
  ELSE IF FGt0(p.uniform_quant) THEN "uniform_quant"
  ELSE IF p.fast_mode THEN "fast"
  ELSE "none"
\* lines 573-589: the branch taken
SelectMode(p) ==
  IF FGe0(p.butteraugli_distance) THEN "perceptual"
  ELSE IF FGt0(p.target_bitrate) THEN "target_size"
  ELSE IF FGt0(p.uniform_quant) THEN "uniform_quant"
  ELSE IF p.fast_mode THEN "fast"
  ELSE "none"

\* lines 576-577: xsize * ysize * target_bitrate / 8.0 as a size_t
TargetSize(xsize, ysize, bitrate) ==
  With(RDiv(RMul(<<xsize * ysize, 1>>, bitrate), <<8, 1>>), LAMBDA r : r[1] \div r[2])

InitOTP ==
  /\ otp_pc = "start"
  /\ params \in [butteraugli_distance : FloatParams, target_bitrate : FloatParams,
                 uniform_quant : FloatParams, fast_mode : BOOLEAN,
                 alpha_channel : BOOLEAN]
  /\ opsin_xsize \in OpsinSizes
  /\ opsin_ysize \in OpsinSizes
  /\ modes_run = <<>>
  /\ otp_target_size = 0
  /\ compressed_data = 0
  /\ otp_header = NoHeader
  /\ otp_ret = FALSE
  /\ otp_error = ""
  /\ IdleExceptOTP

\* lines 566-570
OTP_EmptyCheck ==
  /\ otp_pc = "start"
  /\ IF opsin_xsize = 0 \/ opsin_ysize = 0
     THEN otp_pc' = "done" /\ otp_ret' = FALSE /\ otp_error' = "Empty image"
     ELSE otp_pc' = "select" /\ UNCHANGED <<otp_ret, otp_error>>
  /\ UNCHANGED <<params, opsin_xsize, opsin_ysize, modes_run, otp_target_size,
                 compressed_data, otp_header>>
  /\ UNCHANGED otherThanOTP

\* lines 572-589: the mode chosen runs and leaves its payload
OTP_Select ==
  /\ otp_pc = "select"
  /\ \E mode \in {SelectMode(params)} :
       IF mode = "none"
       THEN /\ otp_pc' = "done" /\ otp_ret' = FALSE /\ otp_error' = "Not implemented"
            /\ UNCHANGED <<modes_run, otp_target_size, compressed_data>>
       ELSE /\ modes_run' = Append(modes_run, mode)
            /\ otp_target_size' =
                 IF mode = "target_size"
                 THEN TargetSize(opsin_xsize, opsin_ysize, params.target_bitrate)
                 ELSE otp_target_size
            /\ compressed_data' \in PayloadSizes
            /\ otp_pc' = "header"
            /\ UNCHANGED <<otp_ret, otp_error>>
  /\ UNCHANGED <<params, opsin_xsize, opsin_ysize, otp_header>>
  /\ UNCHANGED otherThanOTP

\* lines 591-604: the header is stored in front of the payload
OTP_StoreHeader ==
  /\ otp_pc = "header"
  /\ otp_header' = [xsize |-> <<opsin_xsize, 0, 0, 0>>, ysize |-> <<opsin_ysize, 0, 0, 0>>,
                    flags |-> IF params.alpha_channel THEN {"kAlpha"} ELSE {}]
  /\ otp_ret' \in BOOLEAN
  /\ otp_pc' = "done"
  /\ UNCHANGED <<params, opsin_xsize, opsin_ysize, modes_run, otp_target_size,
                 compressed_data, otp_error>>
  /\ UNCHANGED otherThanOTP

NextOTP ==
  \/ OTP_EmptyCheck
  \/ OTP_Select
  \/ OTP_StoreHeader

SpecOTP == InitOTP /\ [][NextOTP]_vars

\* C6: on reaching the selection OpsinToPik runs exactly one mode, by fixed
\* precedence: perceptual if butteraugli_distance >= 0; else target-size if
\* target_bitrate > 0; else uniform-quant if uniform_quant > 0; else fast if
\* fast_mode is set; if none of the four holds it fails with "Not implemented"
\* and has run no mode.
C6_ModePrecedence ==
  /\ Len(modes_run) <= 1
  /\ (otp_pc \in {"header", "done"} /\ opsin_xsize # 0 /\ opsin_ysize # 0) =>
       LET bd == FGe0(params.butteraugli_distance)
           tb == FGt0(params.target_bitrate)
           uq == FGt0(params.uniform_quant)
           fm == params.fast_mode
       IN /\ bd => modes_run = <<"perceptual">>
          /\ (~bd /\ tb) => modes_run = <<"target_size">>
          /\ (~bd /\ ~tb /\ uq) => modes_run = <<"uniform_quant">>
          /\ (~bd /\ ~tb /\ ~uq /\ fm) => modes_run = <<"fast">>
          /\ (~bd /\ ~tb /\ ~uq /\ ~fm) =>
               /\ modes_run = <<>>
               /\ otp_pc = "done" /\ otp_ret = FALSE /\ otp_error = "Not implemented"
\* a call in which the first two conditions both hold: the perceptual mode ran
C6_Witness ==
  /\ otp_pc = "done" /\ modes_run = <<"perceptual">>
  /\ FGt0(params.target_bitrate) /\ FGt0(params.uniform_quant) /\ params.fast_mode

(***************************************************************************)
(* PikToPixelsT (src/pik.cc:608-666).  uint32_t and uint64_t values are    *)
(* sequences of 4 and 8 base-256 digits, lowest first.                     *)
(***************************************************************************)
RECURSIVE ToDigits(_, _)
ToDigits(n, len) == IF len = 0 THEN <<>> ELSE <<n % 256>> \o ToDigits(n \div 256, len - 1)

\* a value converted to a wider unsigned type, or cut down to a narrower one
Widen(d, len) == [i \in 1 .. len |-> IF i <= Len(d) THEN d[i] ELSE 0]
Truncate(d, len) == [i \in 1 .. len |-> d[i]]

\* the sum of the digit products a[i] * b[j] with i + j = k + 1
RECURSIVE Column(_, _, _, _)
Column(a, b, k, i) ==
  IF i > Len(a) THEN 0
  ELSE (IF k + 1 - i >= 1 /\ k + 1 - i <= Len(b) THEN a[i] * b[k + 1 - i] ELSE 0)
       + Column(a, b, k, i + 1)

RECURSIVE Carry(_, _, _, _, _)
Carry(a, b, k, len, c) ==
  IF k > len THEN <<>>
  ELSE With(Column(a, b, k, 1) + c,
            LAMBDA t : <<t % 256>> \o Carry(a, b, k + 1, len, t \div 256))

\* the product of a and b in full: Len(a) + Len(b) digits
MulFull(a, b) == Carry(a, b, 1, Len(a) + Len(b), 0)
\* a * b in an unsigned type of len digits, both operands of that type
MulUnsigned(a, b, len) == Truncate(MulFull(Widen(a, len), Widen(b, len)), len)

\* a > b for values of the same width
RECURSIVE GtFrom(_, _, _)
GtFrom(a, b, k) ==
  IF k = 0 THEN FALSE
  ELSE IF a[k] # b[k] THEN a[k] > b[k]
  ELSE GtFrom(a, b, k - 1)
GtDigits(a, b) == GtFrom(a, b, Len(a))
IsZero(d) == \A i \in 1 .. Len(d) : d[i] = 0

\* the product taken in 32 bits, then converted
NumPixels32(xsize, ysize) == Widen(MulUnsigned(xsize, ysize, 4), 8)
\* line 636: static_cast<uint64_t>(header.xsize) * header.ysize
NumPixels(xsize, ysize) == MulUnsigned(Widen(xsize, 8), ysize, 8)

\* lines 626-639: the message of the first check that fails, "" if none does
HeaderError(hdr, prm) ==
  IF "kWebPLossless" \in hdr.flags THEN "Invalid format code"
  ELSE IF IsZero(hdr.xsize) \/ IsZero(hdr.ysize) THEN "Empty image."
  ELSE IF GtDigits(hdr.xsize, ToDigits(kMaxWidth, 4)) THEN "Image too wide."
  ELSE IF GtDigits(NumPixels(hdr.xsize, hdr.ysize), prm.max_num_pixels)
       THEN "Image too big."
  ELSE ""

InitP2P ==
  /\ p2p_pc = "start"
  /\ compressed_len \in CompressedSizes
  /\ header \in [xsize : HdrXSizes, ysize : HdrYSizes, flags : HdrFlags]
  /\ dparams \in [max_num_pixels : MaxNumPixels, check_decompressed_size : BOOLEAN]
  /\ byte_pos = 0
  /\ img_constructed = FALSE
  /\ decode_called = FALSE
  /\ p2p_ret = FALSE
  /\ p2p_error = ""
  /\ decoded_size = 0
  /\ IdleExceptP2P

\* lines 611-624: the empty input, LoadHeader, the truncated header
P2P_LoadHeader ==
  /\ p2p_pc = "start"
  /\ IF compressed_len = 0
     THEN /\ p2p_pc' = "done" /\ p2p_ret' = FALSE /\ p2p_error' = "Empty input."
          /\ UNCHANGED byte_pos
     ELSE \E loaded \in BOOLEAN, header_size \in HeaderSizes :
            IF ~loaded
            THEN /\ p2p_pc' = "done" /\ p2p_ret' = FALSE /\ p2p_error' = "LoadHeader"
                 /\ UNCHANGED byte_pos
            ELSE IF header_size > compressed_len
                 THEN /\ p2p_pc' = "done" /\ p2p_ret' = FALSE
                      /\ p2p_error' = "Truncated header."
                      /\ UNCHANGED byte_pos
                 ELSE /\ p2p_pc' = "check"
                      /\ byte_pos' = header_size
                      /\ UNCHANGED <<p2p_ret, p2p_error>>
  /\ UNCHANGED <<compressed_len, header, dparams, img_constructed, decode_called,
                 decoded_size>>
  /\ UNCHANGED otherThanP2P

\* lines 626-640: the checks of the header, then the CompressedImage
P2P_CheckHeader ==
  /\ p2p_pc = "check"
  /\ \E err \in {HeaderError(header, dparams)} :
       IF err # ""
       THEN /\ p2p_pc' = "done" /\ p2p_ret' = FALSE /\ p2p_error' = err
            /\ UNCHANGED img_constructed
       ELSE /\ img_constructed' = TRUE
            /\ p2p_pc' = "decode"
            /\ UNCHANGED <<p2p_ret, p2p_error>>
  /\ UNCHANGED <<compressed_len, header, dparams, byte_pos, decode_called,
                 decoded_size>>
  /\ UNCHANGED otherThanP2P

\* lines 641-647: Decode and the reconstruction
P2P_Decode ==
  /\ p2p_pc = "decode"
  /\ decode_called' = TRUE
  /\ \E ok \in BOOLEAN, bytes_read \in BytesReads :
       IF ~ok
       THEN /\ p2p_pc' = "done" /\ p2p_ret' = FALSE
            /\ p2p_error' = "Pik decoding failed."
            /\ UNCHANGED byte_pos
       ELSE /\ byte_pos' = byte_pos + bytes_read
            /\ p2p_pc' = IF "kAlpha" \in header.flags THEN "alpha" ELSE "finish"
            /\ UNCHANGED <<p2p_ret, p2p_error>>
  /\ UNCHANGED <<compressed_len, header, dparams, img_constructed, decoded_size>>
  /\ UNCHANGED otherThanP2P

\* lines 649-657: the alpha sub-stream
P2P_Alpha ==
  /\ p2p_pc = "alpha"
  /\ \E ok \in BOOLEAN, bytes_read \in BytesReads :
       IF ~ok
       THEN /\ p2p_pc' = "done" /\ p2p_ret' = FALSE /\ p2p_error' = "PikToAlpha"
            /\ UNCHANGED byte_pos
       ELSE /\ byte_pos' = byte_pos + bytes_read
            /\ p2p_pc' = "finish"
            /\ UNCHANGED <<p2p_ret, p2p_error>>
  /\ UNCHANGED <<compressed_len, header, dparams, img_constructed, decode_called,
                 decoded_size>>
  /\ UNCHANGED otherThanP2P

\* the size check made whether or not check_decompressed_size is set
P2P_FinishAlwaysChecks ==
  /\ p2p_pc = "finish"
  /\ IF byte_pos # compressed_len
     THEN /\ p2p_ret' = FALSE
          /\ p2p_error' = "Pik compressed data size mismatch."
          /\ UNCHANGED decoded_size
     ELSE /\ p2p_ret' = TRUE
          /\ decoded_size' = byte_pos
          /\ UNCHANGED p2p_error
  /\ p2p_pc' = "done"
  /\ UNCHANGED <<compressed_len, header, dparams, byte_pos, img_constructed,
                 decode_called>>
  /\ UNCHANGED otherThanP2P

\* lines 659-665: the size check and the return
P2P_Finish ==
  /\ p2p_pc = "finish"
  /\ IF dparams.check_decompressed_size /\ byte_pos # compressed_len
     THEN /\ p2p_ret' = FALSE
          /\ p2p_error' = "Pik compressed data size mismatch."
          /\ UNCHANGED decoded_size
     ELSE /\ p2p_ret' = TRUE
          /\ decoded_size' = byte_pos
          /\ UNCHANGED p2p_error
  /\ p2p_pc' = "done"
  /\ UNCHANGED <<compressed_len, header, dparams, byte_pos, img_constructed,
                 decode_called>>
  /\ UNCHANGED otherThanP2P

NextP2P ==
  \/ P2P_LoadHeader
  \/ P2P_CheckHeader
  \/ P2P_Decode
  \/ P2P_Alpha
  \/ P2P_Finish

SpecP2P == InitP2P /\ [][NextP2P]_vars

\* C7: for every header with xsize > 2^25 - 1, or with xsize * ysize (the
\* product in full, without wrap-around) > max_num_pixels, the decoder never
\* constructs the compressed image nor calls Decode, and returns an error.
C7_TooLargeRejected ==
  (\/ GtDigits(header.xsize, ToDigits(kMaxWidth, 4))
   \/ GtDigits(MulFull(header.xsize, header.ysize), dparams.max_num_pixels)) =>
     /\ ~img_constructed
     /\ ~decode_called
     /\ p2p_pc = "done" => ~p2p_ret
\* a header of 2^16 x 2^16 pixels, whose pixel count is 0 in 32 bits, is
\* rejected as too big against a limit of 2^32 - 1
C7_Witness ==
  /\ p2p_pc = "done" /\ p2p_error = "Image too big."
  /\ header.xsize = <<0, 0, 1, 0>> /\ header.ysize = <<0, 0, 1, 0>>
  /\ dparams.max_num_pixels = <<255, 255, 255, 255, 0, 0, 0, 0>>

\* the decoder has returned the error of line 660
SizeMismatch == p2p_pc = "done" /\ p2p_error = "Pik compressed data size mismatch."

FZero == <<0, 0>>
FNeg == <<-1, 0>>
FOne == <<8388608, -23>>
\* the float whose value is the integer n, 0 <= n < 2^24
FInt(n) ==
  IF n = 0 THEN FZero
  ELSE LET k == CHOOSE j \in 0 .. 23 : 2 ^ (23 - j) <= n /\ n < 2 ^ (24 - j)
       IN <<n * 2 ^ k, -k>>

\* mant + rem / (2 * half) rounded to an integer, ties to even; sticky tells
\* that the exact value lies a little above
FRoundParts(mant, rem, half, e, sticky) ==
  LET up == rem > half \/ (rem = half /\ (sticky \/ mant % 2 = 1))
      m == IF up THEN mant + 1 ELSE mant
  IN IF m = 16777216 THEN <<8388608, e + 1>> ELSE <<m, e>>

\* n * 2^e (plus a fraction of 2^e when sticky), 0 < n < 2^30, rounded
FRoundInt(n, e, sticky) ==
  LET k == CHOOSE j \in 1 .. 30 : 2 ^ (j - 1) <= n /\ (j = 30 \/ n < 2 ^ j)
  IN IF k <= 24
     THEN <<n * 2 ^ (24 - k), e - (24 - k)>>
     ELSE FRoundParts(n \div 2 ^ (k - 24), 2 * (n % 2 ^ (k - 24)), 2 ^ (k - 24),
                      e + (k - 24), sticky)

FLt(a, b) ==
  IF b = FNeg THEN FALSE
  ELSE IF a = FNeg THEN TRUE
  ELSE IF b = FZero THEN FALSE
  ELSE IF a = FZero THEN TRUE
  ELSE a[2] < b[2] \/ (a[2] = b[2] /\ a[1] < b[1])
FLe(a, b) == a = b \/ FLt(a, b)
\* std::max(a, b)
FMax(a, b) == IF FLt(a, b) THEN b ELSE a

\* a * b: the 48-bit product of the mantissas in two 24-bit halves
FMul(a, b) ==
  IF a = FZero \/ b = FZero THEN FZero
  ELSE LET ah == a[1] \div 4096
           al == a[1] % 4096
           bh == b[1] \div 4096
           bl == b[1] % 4096
           cross == ah * bl + al * bh
           low_sum == (cross % 4096) * 4096 + al * bl
           low == low_sum % 16777216
           high == ah * bh + cross \div 4096 + low_sum \div 16777216
       IN IF high >= 8388608
          THEN FRoundParts(high, low, 8388608, a[2] + b[2] + 24, FALSE)
          ELSE FRoundParts(2 * high + low \div 8388608, low % 8388608, 4194304,
                           a[2] + b[2] + 23, FALSE)

\* n more quotient bits of r / mb by long division: <<quotient, remainder>>
RECURSIVE FDivBits(_, _, _, _)
FDivBits(r, mb, n, acc) ==
  IF n = 0 THEN <<acc, r>>
  ELSE IF 2 * r >= mb THEN FDivBits(2 * r - mb, mb, n - 1, 2 * acc + 1)
       ELSE FDivBits(2 * r, mb, n - 1, 2 * acc)

\* a / b, b > 0
FDiv(a, b) ==
  IF a = FZero THEN FZero
  ELSE LET qr == IF a[1] >= b[1] THEN FDivBits(a[1] - b[1], b[1], 23, 1)
                 ELSE FDivBits(a[1], b[1], 24, 0)
           e == IF a[1] >= b[1] THEN a[2] - b[2] - 23 ELSE a[2] - b[2] - 24
       IN FRoundParts(qr[1], 2 * qr[2], b[1], e, FALSE)

\* a + b, both >= 0
FAdd(a, b) ==
  IF a = FZero THEN b
  ELSE IF b = FZero THEN a
  ELSE LET hi == IF a[2] >= b[2] THEN a ELSE b
           lo == IF a[2] >= b[2] THEN b ELSE a
           shift == hi[2] - lo[2]
       IN IF shift >= 26 THEN hi
          ELSE LET sum == hi[1] + lo[1] \div 2 ^ shift
                   rem == lo[1] % 2 ^ shift
               IN IF sum < 16777216
                  THEN FRoundParts(sum, 2 * rem, 2 ^ shift, hi[2], FALSE)
                  ELSE FRoundParts(sum \div 2, (sum % 2) * 2 ^ shift + rem, 2 ^ shift,
                                   hi[2] + 1, FALSE)

\* a - b, both >= 0; FNeg when the difference is negative
FSub(a, b) ==
  IF b = FZero THEN a
  ELSE IF a = b THEN FZero
  ELSE IF FLt(a, b) THEN FNeg
  ELSE LET shift == a[2] - b[2]
       IN IF shift <= 6
          THEN FRoundInt(a[1] * 2 ^ shift - b[1], b[2], FALSE)
          ELSE LET bq == IF shift >= 27 THEN 0 ELSE b[1] \div 2 ^ (shift - 2)
                   sticky == shift >= 27 \/ b[1] % 2 ^ (shift - 2) # 0
               IN IF sticky
                  THEN FRoundInt(4 * a[1] - bq - 1, a[2] - 2, TRUE)
                  ELSE FRoundInt(4 * a[1] - bq, a[2] - 2, FALSE)


(***************************************************************************)
(* FindBestQuantization (src/pik.cc:186-276) in binary32 on an image of    *)
(* three blocks in a row.  The comparator is external: every Compare       *)
(* reports one of F32TileMaps and a scalar distance.                       *)
(***************************************************************************)
F32XSize == 3
\* line 134: 0.999f
k999F == <<16760439, -24>>
\* line 246: 0.65 passed as float peak_weight
kPeakWeightF == <<10905190, -24>>
\* lines 252-253: kAdjSpeed = { 0.1, 0.05, 0.025 } as floats
kAdjSpeedF(o) == <<13421773, -27 - o>>
\* line 268: kQuantScale = { 0.0, 0.8, 0.9 } as floats
kQuantScaleF(o) == IF o = 1 THEN <<13421773, -24>> ELSE IF o = 2 THEN <<15099494, -24>> ELSE FZero
\* line 264: 0.5f
kQuantMaxStepF == <<8388608, -24>>
\* lines 196-197: initial_quant_val_ac / butteraugli_target
kInitialQuantACF(target) == FDiv(<<9437184, -24>>, target)
\* the targets tried: 1.0 and 0.95
F32Targets == {FOne, <<15938355, -24>>}
\* the tile distance maps and scalar distances a Compare may report
F32TileMaps(target) ==
  {<<a, FInt(20), FZero>> : a \in {FZero, FInt(2), target}}
    \cup {<<target, b, FInt(20)>> : b \in {FZero, target}}
    \cup {<<FZero, FZero, FZero>>, <<target, target, target>>}
F32Distances == {FZero, FInt(20)}
\* max_butteraugli_iters
MaxF32Iters == 3

\* AdjustQuantVal(&q, d, factor, quant_max), lines 131-139
AdjustQuantValF(q, d, factor, qmax) ==
  IF FLe(FMul(k999F, qmax), q)
  THEN [q |-> q, ret |-> FALSE]
  ELSE LET inv_q == FDiv(FOne, q)
           adj_inv_q == FSub(inv_q, FDiv(factor, FAdd(d, FOne)))
       IN [q |-> FDiv(FOne, FMax(FDiv(FOne, qmax), adj_inv_q)), ret |-> TRUE]

\* lines 104-116 on a field of one row (cells 1 .. F32XSize)
IsPeakF(field, peak_min, local_radius, peak_weight, x0) ==
  LET x_min == Max(1, x0 - local_radius)
      x_max == Min(F32XSize + 1, x0 + 1 + local_radius)
      seen == {field[x] : x \in x_min .. x_max - 1} \cup {peak_min}
      local_max == CHOOSE m \in seen : \A e \in seen : FLe(e, m)
  IN FLt(FAdd(FMul(FSub(FOne, peak_weight), peak_min), FMul(peak_weight, local_max)),
         field[x0])

\* lines 102-126 from cell x0 on
RECURSIVE DistToPeakLoopF(_, _, _, _, _, _)
DistToPeakLoopF(result, x0, field, peak_min, local_radius, peak_weight) ==
  IF x0 > F32XSize
  THEN result
  ELSE LET x_min == Max(1, x0 - local_radius)
           x_max == Min(F32XSize + 1, x0 + 1 + local_radius)
           written == [x \in 1 .. F32XSize |->
                         IF x \in x_min .. x_max - 1
                            /\ (result[x] < 0 \/ result[x] > Abs(x - x0))
                         THEN Abs(x - x0) ELSE result[x]]
       IN DistToPeakLoopF(
            IF IsPeakF(field, peak_min, local_radius, peak_weight, x0)
            THEN written ELSE result,
            x0 + 1, field, peak_min, local_radius, peak_weight)

\* lines 244-262 from the given radius on: the field, changed, the cells
\* DistToPeakMap took for peaks and the AdjustQuantVal calls made
RECURSIVE RadiusLoopF(_, _, _)
RadiusLoopF(st, r, a) ==
  IF r > 4 \/ st.changed
  THEN st
  ELSE LET dist_to_peak_map ==
             DistToPeakLoopF([x \in 1 .. F32XSize |-> -1], 1, a.tile, a.target, r,
                             kPeakWeightF)
           near == {x \in 1 .. F32XSize : dist_to_peak_map[x] >= 0}
           adj == [x \in near |->
                     AdjustQuantValF(st.qf[x], FInt(dist_to_peak_map[x]),
                                     FMul(kAdjSpeedF(a.outer_iter), a.tile[x]),
                                     a.quant_max)]
       IN RadiusLoopF(
            [qf |-> [x \in 1 .. F32XSize |-> IF x \in near THEN adj[x].q ELSE st.qf[x]],
             changed |-> \E x \in near : adj[x].ret,
             peaks |-> st.peaks \cup
                         {x \in 1 .. F32XSize :
                            IsPeakF(a.tile, a.target, r, kPeakWeightF, x)},
             calls |-> st.calls \cup
                         {[before |-> st.qf[x], after |-> adj[x].q,
                           quant_max |-> a.quant_max] : x \in near}],
            r + 1, a)

InitF32 ==
  /\ call_pc = "f32_top"
  /\ \E target \in F32Targets :
       call_args = [target |-> target,
                    qf |-> [x \in 1 .. F32XSize |-> kInitialQuantACF(target)],
                    quantizer |-> [x \in 1 .. F32XSize |-> FOne],
                    tile |-> [x \in 1 .. F32XSize |-> FZero],
                    distance |-> FZero, outer_iter |-> 0, iter |-> 0,
                    quant_max |-> FInt(4), changed |-> FALSE]
  /\ call_result = [peaks |-> {}, calls |-> {}, tile |-> [x \in 1 .. F32XSize |-> FZero]]
  /\ IdleExceptCall

\* lines 215-223 and 242
F32_Top ==
  /\ call_pc = "f32_top"
  /\ IF call_args.quantizer # call_args.qf
     THEN IF call_args.iter >= MaxF32Iters
          THEN /\ call_pc' = "f32_done"
               /\ call_args' = [call_args EXCEPT !.quantizer = call_args.qf]
          ELSE /\ call_pc' = "f32_while"
               /\ \E tile \in F32TileMaps(call_args.target), dist \in F32Distances :
                    call_args' = [call_args EXCEPT !.quantizer = call_args.qf,
                                                   !.tile = tile, !.distance = dist,
                                                   !.iter = call_args.iter + 1,
                                                   !.changed = FALSE]
     ELSE /\ call_pc' = "f32_while"
          /\ call_args' = [call_args EXCEPT !.changed = FALSE]
  /\ UNCHANGED call_result
  /\ UNCHANGED otherThanCall

\* lines 243-264: one pass of the while loop
F32_While ==
  /\ call_pc = "f32_while"
  /\ ~call_args.changed /\ FLt(call_args.target, call_args.distance)
  /\ \E st \in {RadiusLoopF([qf |-> call_args.qf, changed |-> FALSE, peaks |-> {},
                            calls |-> {}], 1, call_args)} :
       /\ call_result' = [peaks |-> st.peaks, calls |-> st.calls, tile |-> call_args.tile]
       /\ IF FLe(FInt(8), call_args.quant_max)
          THEN /\ call_pc' = "f32_tail"
               /\ call_args' = [call_args EXCEPT !.qf = st.qf, !.changed = st.changed]
          ELSE /\ call_pc' = "f32_while"
               /\ call_args' = [call_args EXCEPT
                                  !.qf = st.qf, !.changed = st.changed,
                                  !.quant_max = IF st.changed THEN call_args.quant_max
                                                ELSE FAdd(call_args.quant_max,
                                                          kQuantMaxStepF)]
  /\ UNCHANGED otherThanCall

\* line 243: the while condition fails
F32_WhileExit ==
  /\ call_pc = "f32_while"
  /\ ~(~call_args.changed /\ FLt(call_args.target, call_args.distance))
  /\ call_pc' = "f32_tail"
  /\ UNCHANGED <<call_args, call_result>>
  /\ UNCHANGED otherThanCall

\* lines 266-274
F32_Tail ==
  /\ call_pc = "f32_tail"
  /\ IF call_args.changed
     THEN call_pc' = "f32_top" /\ UNCHANGED call_args
     ELSE IF call_args.outer_iter + 1 = kMaxOuterIters
          THEN /\ call_pc' = "f32_done"
               /\ call_args' = [call_args EXCEPT !.outer_iter = call_args.outer_iter + 1]
          ELSE /\ call_pc' = "f32_top"
               /\ call_args' =
                    [call_args EXCEPT
                       !.outer_iter = call_args.outer_iter + 1,
                       !.qf = [x \in 1 .. F32XSize |->
                                 FMul(call_args.qf[x],
                                      kQuantScaleF(call_args.outer_iter + 1))]]
  /\ UNCHANGED call_result
  /\ UNCHANGED otherThanCall

NextF32 ==
  \/ F32_Top
  \/ F32_While
  \/ F32_WhileExit
  \/ F32_Tail

SpecF32 == InitF32 /\ [][NextF32]_vars

\* C27: inside FindBestQuantization an AdjustQuantVal call never decreases
\* a quant value and never raises it above the current quant_max (tile
\* distances are >= 0), so that quant values decrease only through the
\* kQuantScale multiplication between outer passes.
C27_AdjustNeverDecreases ==
  \A c \in call_result.calls :
    FLe(c.before, c.after) /\ FLe(c.after, c.quant_max)

\* C29: in DistToPeakMap with peak_weight in [0, 1] a block whose tile
\* distance is <= the target (peak_min) is never marked as a peak, for any
\* radius; so when every tile distance is <= the target the map is -1
\* everywhere and the inner loop changes no quant value.
C29_NoPeakAtOrBelowTarget ==
  /\ \A x \in call_result.peaks : ~FLe(call_result.tile[x], call_args.target)
  /\ (\A x \in 1 .. F32XSize : FLe(call_result.tile[x], call_args.target)) =>
       /\ call_result.peaks = {}
       /\ call_result.calls = {}


(***************************************************************************)
(* EvalLocalYToB (src/pik.cc:301-353): the AC histogram kept up to date    *)
(* block by block.  The entropy coder is external: a block of coefficients *)
(* is told by one symbol per channel, ProcessBlock adds the weight of the  *)
(* histogram to the count of the block's symbol, and QuantizeBlock makes   *)
(* the symbol of the third channel depend on the Y-to-B value of the tile. *)
(***************************************************************************)
\* the image sizes tried: 2 x 2 tiles with partial ones, 1 x 2 tiles, 1 tile
LybSizes == {<<65, 65>>, <<64, 72>>, <<9, 17>>}
\* the Y-to-B values SetVal is called with
LybYToBs == {0, 120, 255}
\* the number of different symbols of a channel
LybSymbols == 4
\* the number of SetVal calls followed
MaxLybEvals == 3

LybBlocks(xsize, ysize) ==
  (0 .. CeilDiv(xsize, kBlockEdge) - 1) \X (0 .. CeilDiv(ysize, kBlockEdge) - 1)
LybTiles(xsize, ysize) ==
  (0 .. CeilDiv(CeilDiv(xsize, kBlockEdge), kTileToBlockRatio) - 1)
    \X (0 .. CeilDiv(CeilDiv(ysize, kBlockEdge), kTileToBlockRatio) - 1)

\* img->QuantizeBlock(block_x, block_y): the symbols of the three channels
LybQuantizeBlock(block_x, block_y, ytob) ==
  <<block_x % LybSymbols, block_y % LybSymbols,
    (block_x + 2 * block_y + ytob) % LybSymbols>>

\* line 308: ProcessImage3(img->coeffs(), &ac_processor, &ac_histo) on an
\* empty histogram of weight 1
ProcessImage3AC(coeffs) ==
  [sym \in 0 .. LybSymbols - 1 |->
     Cardinality({bc \in (DOMAIN coeffs) \X (1 .. 3) : coeffs[bc[1]][bc[2]] = sym})]

\* ProcessBlock for c = 0, 1, 2 at the weight of the histogram
LybProcessBlock(histo, block, weight) ==
  [sym \in DOMAIN histo |->
     histo[sym] + weight * Cardinality({c \in 1 .. 3 : block[c] = sym})]

\* a block step that adds the new contribution and leaves the old one in
ACBlockStepAddOnly(st, block_x, block_y, ytob) ==
  LET requantized == LybQuantizeBlock(block_x, block_y, ytob)
  IN [coeffs |-> [st.coeffs EXCEPT ![<<block_x, block_y>>] = requantized],
      ac_histo |-> LybProcessBlock(st.ac_histo, requantized, 1),
      weight |-> 1]

\* lines 325-337: remove the block at weight -1, requantize it, add it at
\* weight 1
ACBlockStep(st, block_x, block_y, ytob) ==
  LET removed == LybProcessBlock(st.ac_histo, st.coeffs[<<block_x, block_y>>], -1)
      requantized == LybQuantizeBlock(block_x, block_y, ytob)
  IN [coeffs |-> [st.coeffs EXCEPT ![<<block_x, block_y>>] = requantized],
      ac_histo |-> LybProcessBlock(removed, requantized, 1),
      weight |-> 1]

\* lines 318-338 from column ix of row iy of the tile on
RECURSIVE EvalLocalSetValRow(_, _, _, _, _)
EvalLocalSetValRow(st, ix, iy, a, ytob) ==
  IF ix >= kTileToBlockRatio
  THEN st
  ELSE LET block_y == kTileToBlockRatio * a.tiley + iy
           block_x == kTileToBlockRatio * a.tilex + ix
           xmin == kBlockEdge * block_x
           ymin == kBlockEdge * block_y
       IN With(IF xmin >= a.xsize \/ ymin >= a.ysize THEN st
               ELSE ACBlockStep(st, block_x, block_y, ytob),
               LAMBDA next : EvalLocalSetValRow(next, ix + 1, iy, a, ytob))

\* lines 316-339 from row iy of the tile on
RECURSIVE EvalLocalSetVal(_, _, _, _)
EvalLocalSetVal(st, iy, a, ytob) ==
  IF iy >= kTileToBlockRatio
  THEN st
  ELSE With(EvalLocalSetValRow(st, 0, iy, a, ytob),
            LAMBDA next : EvalLocalSetVal(next, iy + 1, a, ytob))

\* lines 302-309: the constructor, after the global search has quantized
\* the image at one Y-to-B value
InitLYB ==
  /\ call_pc = "lyb"
  /\ \E size \in LybSizes, global_best \in {0, 120} :
       LET coeffs == [b \in LybBlocks(size[1], size[2]) |->
                        LybQuantizeBlock(b[1], b[2], global_best)]
       IN call_args = [xsize |-> size[1], ysize |-> size[2],
                       ytob_ac |-> [t \in LybTiles(size[1], size[2]) |-> global_best],
                       coeffs |-> coeffs,
                       ac_histo |-> ProcessImage3AC(coeffs),
                       weight |-> 1, tilex |-> 0, tiley |-> 0, evals |-> 0]
  /\ call_result = <<>>
  /\ IdleExceptCall

\* lines 310-313: SetTile
LYB_SetTile ==
  /\ call_pc = "lyb"
  /\ \E t \in LybTiles(call_args.xsize, call_args.ysize) :
       /\ t # <<call_args.tilex, call_args.tiley>>
       /\ call_args' = [call_args EXCEPT !.tilex = t[1], !.tiley = t[2]]
  /\ UNCHANGED <<call_pc, call_result>>
  /\ UNCHANGED otherThanCall

\* lines 341-344: operator(), SetVal and the histogram EncodedSize is taken of
LYB_Eval ==
  /\ call_pc = "lyb"
  /\ call_args.evals < MaxLybEvals
  /\ \E ytob \in LybYToBs :
     \E st \in {EvalLocalSetVal([coeffs |-> call_args.coeffs,
                                 ac_histo |-> call_args.ac_histo,
                                 weight |-> call_args.weight], 0, call_args, ytob)} :
       /\ call_args' = [call_args EXCEPT
                          !.ytob_ac[<<call_args.tilex, call_args.tiley>>] = ytob,
                          !.coeffs = st.coeffs, !.ac_histo = st.ac_histo,
                          !.weight = st.weight, !.evals = call_args.evals + 1]
       /\ call_result' = [ytob |-> ytob, before |-> call_args.ac_histo,
                          encoded |-> st.ac_histo]
  /\ UNCHANGED call_pc
  /\ UNCHANGED otherThanCall

SpecLYB == InitLYB /\ [][LYB_SetTile \/ LYB_Eval]_vars

\* C21: whenever EvalLocalYToB evaluates EncodedSize, after each SetVal has
\* returned, its incrementally kept AC histogram equals the histogram built
\* from scratch over the whole current coefficient image: every in-image
\* block of the tile has had its old contribution removed at weight -1, has
\* been re-quantized and has had its new contribution added at weight +1,
\* and the weight of the histogram is +1 on return.
C21_IncrementalHistogram ==
  call_args.evals > 0 =>
    /\ call_result.encoded = ProcessImage3AC(call_args.coeffs)
    /\ call_args.ac_histo = call_result.encoded
    /\ call_args.weight = 1
    /\ \A b \in LybBlocks(call_args.xsize, call_args.ysize) :
         call_args.coeffs[b] =
           LybQuantizeBlock(b[1], b[2],
                            call_args.ytob_ac[<<b[1] \div kTileToBlockRatio,
                                                b[2] \div kTileToBlockRatio>>])
\* the one-block corner tile of the 65 x 65 image re-quantized after another
\* tile, with a histogram that changed
C21_Witness ==
  /\ call_args.evals = MaxLybEvals
  /\ call_args.xsize = 65 /\ call_args.ysize = 65
  /\ call_args.tilex = 1 /\ call_args.tiley = 1
  /\ call_result.encoded # call_result.before
  /\ call_args.ytob_ac[<<0, 0>>] # call_args.ytob_ac[<<1, 1>>]
  /\ call_args.ytob_ac[<<0, 0>>] # call_args.ytob_ac[<<1, 0>>]

=============================================================================
